---- MODULE Spec2Model ----
(***************************************************************************)
(* Medicine inventory bot: the ledger of src/database.py (the in-memory    *)
(* list `medicines`, its JSON snapshot on disk, the tiered name resolver   *)
(* find_medicine, update_stock, the two DataFrame imports, the status and  *)
(* low-stock queries), the sale-line parser of src/parser.py, and the      *)
(* sale loop process_sales of src/bot.py.                                  *)
(*                                                                         *)
(* Text is modelled as a sequence of one-character strings, so that        *)
(* lower(), strip(), startswith(), `in` and the similarity ratio are       *)
(* computed character by character as Python computes them.               *)
(***************************************************************************)
EXTENDS Integers, Sequences, FiniteSets, TLC

VARIABLES medicines, disk, now, last, sales

vars == <<medicines, disk, now, last, sales>>

----------------------------------------------------------------------------
(* Bounds of the model.                                                    *)

\* Number of clock-reading handler calls in one run (clock readings 0..MaxClock-1).
MaxClock == 3

\* Quantities passed to update_stock range over -MaxQty..MaxQty.
MaxQty == 2

----------------------------------------------------------------------------
(* Python str operations, on sequences of characters.                      *)

\* str.lower() on one character (the alphabet of the model's names).
Lower(c) ==
    CASE c = "A" -> "a"
      [] c = "B" -> "b"
      [] c = "C" -> "c"
      [] OTHER -> c

LowerStr(s) == [i \in 1..Len(s) |-> Lower(s[i])]

IsSpace(c) == c = " "

RECURSIVE LStrip(_)
LStrip(s) == IF s = <<>> \/ ~IsSpace(Head(s)) THEN s ELSE LStrip(Tail(s))

RECURSIVE RStrip(_)
RStrip(s) ==
    IF s = <<>> \/ ~IsSpace(s[Len(s)]) THEN s ELSE RStrip(SubSeq(s, 1, Len(s) - 1))

\* str.strip()
Strip(s) == RStrip(LStrip(s))

\* s.startswith(q)
StartsWith(s, q) == Len(q) <= Len(s) /\ SubSeq(s, 1, Len(q)) = q

\* q in s
Contains(s, q) ==
    \E i \in 0..(Len(s) - Len(q)) : SubSeq(s, i + 1, i + Len(q)) = q

\* Code points order the characters (space < '-' < '.' < digits < upper <
\* lower).
CharOrder == <<" ", "-", ".", "0", "1", "2", "3", "4", "5", "6", "7", "8", "9",
               "A", "B", "C", "a", "b", "c", "d", "n", "x">>

CharCode(c) == CHOOSE i \in 1..Len(CharOrder) : CharOrder[i] = c

IsAlnum(c) == c \notin {" ", "-", "."}

\* Python's < on str.
RECURSIVE StrLess(_, _)
StrLess(s, t) ==
    IF t = <<>> THEN FALSE
    ELSE IF s = <<>> THEN TRUE
    ELSE IF Head(s) = Head(t) THEN StrLess(Tail(s), Tail(t))
    ELSE CharCode(Head(s)) < CharCode(Head(t))

----------------------------------------------------------------------------
(* thefuzz: fuzz.token_sort_ratio and process.extractOne, as the library   *)
(* called at database.py:221 computes them (difflib.SequenceMatcher).       *)

\* utils.full_process: non-alphanumerics to spaces, lower-case, strip.
full_process(s) ==
    Strip(LowerStr([i \in 1..Len(s) |-> IF IsAlnum(s[i]) THEN s[i] ELSE " "]))

\* str.split(): the whitespace-separated tokens, in order.
RECURSIVE SplitFrom(_, _, _)
SplitFrom(s, cur, acc) ==
    IF s = <<>> THEN (IF cur = <<>> THEN acc ELSE Append(acc, cur))
    ELSE IF IsSpace(Head(s))
         THEN SplitFrom(Tail(s), <<>>, IF cur = <<>> THEN acc ELSE Append(acc, cur))
         ELSE SplitFrom(Tail(s), Append(cur, Head(s)), acc)

Split(s) == SplitFrom(s, <<>>, <<>>)

\* sorted(tokens): insertion into an already sorted sequence, stable.
RECURSIVE InsertSorted(_, _)
InsertSorted(sorted, t) ==
    IF sorted = <<>> THEN <<t>>
    ELSE IF StrLess(t, Head(sorted)) THEN <<t>> \o sorted
    ELSE <<Head(sorted)>> \o InsertSorted(Tail(sorted), t)

RECURSIVE SortTokens(_)
SortTokens(ts) ==
    IF ts = <<>> THEN <<>>
    ELSE InsertSorted(SortTokens(SubSeq(ts, 1, Len(ts) - 1)), ts[Len(ts)])

\* " ".join(tokens)
RECURSIVE Join(_)
Join(ts) ==
    IF ts = <<>> THEN <<>>
    ELSE IF Len(ts) = 1 THEN ts[1]
    ELSE ts[1] \o <<" ">> \o Join(Tail(ts))

\* fuzz._process_and_sort
process_and_sort(s) == Strip(Join(SortTokens(Split(full_process(s)))))

\* SequenceMatcher.find_longest_match: the longest common block; of the
\* longest, the one starting earliest in a, and of those earliest in b.
Blocks(a, b) ==
    {<<i, j, k>> \in (1..Len(a)) \X (1..Len(b)) \X (1..Len(a)) :
        /\ i + k - 1 <= Len(a)
        /\ j + k - 1 <= Len(b)
        /\ SubSeq(a, i, i + k - 1) = SubSeq(b, j, j + k - 1)}

find_longest_match(a, b) ==
    CHOOSE m \in Blocks(a, b) :
        \A o \in Blocks(a, b) :
            \/ m[3] > o[3]
            \/ m[3] = o[3] /\ m[1] < o[1]
            \/ m[3] = o[3] /\ m[1] = o[1] /\ m[2] <= o[2]

\* Sum of the sizes of SequenceMatcher.get_matching_blocks().
RECURSIVE MatchingSize(_, _)
MatchingSize(a, b) ==
    IF Blocks(a, b) = {} THEN 0
    ELSE LET m == find_longest_match(a, b)
         IN  m[3]
             + MatchingSize(SubSeq(a, 1, m[1] - 1), SubSeq(b, 1, m[2] - 1))
             + MatchingSize(SubSeq(a, m[1] + m[3], Len(a)),
                            SubSeq(b, m[2] + m[3], Len(b)))

\* int(round(num / den)), Python 3 rounding (half to even).
RoundHalfEven(num, den) ==
    LET q == num \div den
        r == num % den
    IN  IF 2 * r < den THEN q
        ELSE IF 2 * r > den THEN q + 1
        ELSE IF q % 2 = 0 THEN q ELSE q + 1

\* fuzz.ratio: 100 for equal strings, 0 when one is empty, else 100 * 2M/T.
ratio(s1, s2) ==
    IF s1 = s2 THEN 100
    ELSE IF s1 = <<>> \/ s2 = <<>> THEN 0
    ELSE RoundHalfEven(200 * MatchingSize(s1, s2), Len(s1) + Len(s2))

token_sort_ratio(s1, s2) == ratio(process_and_sort(s1), process_and_sort(s2))

\* process.extractOne(query, choices, scorer=fuzz.token_sort_ratio): the
\* first choice of maximal score (max() keeps the first maximum), as
\* [i |-> position in choices, score |-> its score]; choices is not empty.
extractOne(query, choices) ==
    LET sc == [i \in 1..Len(choices) |-> token_sort_ratio(query, choices[i])]
        best == CHOOSE i \in 1..Len(choices) :
                    /\ \A j \in 1..Len(choices) : sc[j] <= sc[i]
                    /\ \A j \in 1..(i - 1) : sc[j] < sc[i]
    IN  [match |-> choices[best], score |-> sc[best]]

----------------------------------------------------------------------------
(* Values of DataFrame cells and Python's conversions of them.             *)

\* A cell holds an int, a str or a missing value (pandas NaN).
IntCell(n) == [k |-> "int", n |-> n, s |-> <<>>]
StrCell(s) == [k |-> "str", n |-> 0, s |-> s]
NanCell == [k |-> "nan", n |-> 0, s |-> <<>>]

\* A float: NaN, or the (integral, in this model) number v.
Float(v) == [nan |-> FALSE, v |-> v]
FloatNaN == [nan |-> TRUE, v |-> 0]

\* The result of a conversion: a value, or an exception raised.
Ok(v) == [ok |-> TRUE, v |-> v]
Raised == [ok |-> FALSE, v |-> 0]

IsDigit(c) == c \in {"0", "1", "2", "3", "4", "5", "6", "7", "8", "9"}
DigitVal(c) == CharCode(c) - CharCode("0")

RECURSIVE DigitsVal(_, _)
DigitsVal(s, acc) ==
    IF s = <<>> THEN acc ELSE DigitsVal(Tail(s), 10 * acc + DigitVal(Head(s)))

\* int(str): optional surrounding whitespace, optional sign, decimal digits.
ParseInt(s) ==
    LET t == Strip(s)
        neg == t # <<>> /\ Head(t) = "-"
        d == IF neg THEN Tail(t) ELSE t
    IN  IF d # <<>> /\ \A i \in 1..Len(d) : IsDigit(d[i])
        THEN Ok(IF neg THEN 0 - DigitsVal(d, 0) ELSE DigitsVal(d, 0))
        ELSE Raised

RECURSIVE NatStr(_)
NatStr(n) ==
    IF n < 10 THEN <<CharOrder[CharCode("0") + n]>>
    ELSE Append(NatStr(n \div 10), CharOrder[CharCode("0") + (n % 10)])

\* str(cell)
PyStr(c) ==
    CASE c.k = "str" -> c.s
      [] c.k = "nan" -> <<"n", "a", "n">>
      [] c.k = "int" -> IF c.n < 0 THEN <<"-">> \o NatStr(0 - c.n) ELSE NatStr(c.n)

\* int(cell): ValueError on NaN and on text that is no integer literal.
PyInt(c) ==
    CASE c.k = "int" -> Ok(c.n)
      [] c.k = "nan" -> Raised
      [] c.k = "str" -> ParseInt(c.s)

\* float(cell): NaN stays NaN, "nan" parses to NaN, other text as for int.
PyFloat(c) ==
    CASE c.k = "int" -> Ok(Float(c.n))
      [] c.k = "nan" -> Ok(FloatNaN)
      [] c.k = "str" ->
            IF LowerStr(Strip(c.s)) = <<"n", "a", "n">> THEN Ok(FloatNaN)
            ELSE LET r == ParseInt(c.s)
                 IN  IF r.ok THEN Ok(Float(r.v)) ELSE [ok |-> FALSE, v |-> Float(0)]

----------------------------------------------------------------------------
(* parser.py: SalesParser.                                                 *)

\* A float parsed from text: NaN, or the number num / den (den a power of
\* ten: the digits of the literal over 10 ^ the number of fraction digits).
Fraction(num, den) == [nan |-> FALSE, num |-> num, den |-> den]
FractionNaN == [nan |-> TRUE, num |-> 0, den |-> 1]

RECURSIVE Pow10(_)
Pow10(n) == IF n = 0 THEN 1 ELSE 10 * Pow10(n - 1)

\* float(str): optional surrounding whitespace, optional sign, then "nan"
\* or decimal digits with at most one point and at least one digit.
ParseFloat(s) ==
    LET t == Strip(s)
        neg == t # <<>> /\ Head(t) = "-"
        body == IF neg THEN Tail(t) ELSE t
        dots == {i \in 1..Len(body) : body[i] = "."}
        digits == SelectSeq(body, IsDigit)
        frac == IF dots = {} THEN 0 ELSE Len(body) - (CHOOSE i \in dots : TRUE)
    IN  IF LowerStr(body) = <<"n", "a", "n">> THEN Ok(FractionNaN)
        ELSE IF /\ Cardinality(dots) <= 1
                /\ digits # <<>>
                /\ Len(digits) + Cardinality(dots) = Len(body)
        THEN Ok(Fraction(IF neg THEN 0 - DigitsVal(digits, 0) ELSE DigitsVal(digits, 0),
                         Pow10(frac)))
        ELSE [ok |-> FALSE, v |-> FractionNaN]

\* The length of the run of whitespace s starts with.
RECURSIVE SpanSpaces(_)
SpanSpaces(s) == IF s = <<>> \/ ~IsSpace(Head(s)) THEN 0 ELSE 1 + SpanSpaces(Tail(s))

\* The length of the run of digits s starts with.
RECURSIVE SpanDigits(_)
SpanDigits(s) == IF s = <<>> \/ ~IsDigit(Head(s)) THEN 0 ELSE 1 + SpanDigits(Tail(s))

\* \s+(\d+)\s+([\d.]+)$ matched at the start of rest: each run is taken
\* whole, since the character after it cannot belong to the next item.
MatchTail(rest) ==
    LET a == SpanSpaces(rest)
        r1 == SubSeq(rest, a + 1, Len(rest))
        d == SpanDigits(r1)
        r2 == SubSeq(r1, d + 1, Len(r1))
        b == SpanSpaces(r2)
        r3 == SubSeq(r2, b + 1, Len(r2))
    IN  [ok |-> /\ a >= 1
                /\ d >= 1
                /\ b >= 1
                /\ r3 # <<>>
                /\ \A i \in 1..Len(r3) : IsDigit(r3[i]) \/ r3[i] = ".",
         quantity |-> SubSeq(r1, 1, d),
         price |-> r3]

\* sales_pattern.match(line): the lazy (.+?) takes the shortest prefix
\* after which the rest of the pattern matches up to the end of the line.
sales_pattern_match(line) ==
    LET ends == {i \in 1..Len(line) : MatchTail(SubSeq(line, i + 1, Len(line))).ok}
        i == CHOOSE x \in ends : \A y \in ends : x <= y
        tail == MatchTail(SubSeq(line, i + 1, Len(line)))
    IN  IF ends = {} THEN [ok |-> FALSE, g1 |-> <<>>, g2 |-> <<>>, g3 |-> <<>>]
        ELSE [ok |-> TRUE, g1 |-> SubSeq(line, 1, i), g2 |-> tail.quantity,
              g3 |-> tail.price]

NoEntry == [kind |-> "none", medicine_query |-> <<>>, quantity |-> 0,
            price |-> FractionNaN]

\* float(match.group(3)) raised ValueError, which parse_single_line does not
\* catch on this path.
RaisedEntry == [kind |-> "raise", medicine_query |-> <<>>, quantity |-> 0,
                price |-> FractionNaN]

Entry(medicine_query, quantity, price) ==
    [kind |-> "entry", medicine_query |-> medicine_query, quantity |-> quantity,
     price |-> price]

\* The fallback: the last two whitespace-separated parts as price and
\* quantity, the parts before them as the name.
parse_fallback(line) ==
    LET parts == Split(line)
        n == Len(parts)
        price == ParseFloat(parts[n])
        quantity == ParseInt(parts[n - 1])
    IN  IF n < 3 THEN NoEntry
        ELSE IF ~price.ok \/ ~quantity.ok THEN NoEntry
        ELSE Entry(Strip(Join(SubSeq(parts, 1, n - 2))), quantity.v, price.v)

\* Returns an entry, None, or raises.
parse_single_line(line) ==
    LET m == sales_pattern_match(line)
        price == ParseFloat(m.g3)
    IN  IF m.ok
        THEN IF price.ok THEN Entry(Strip(m.g1), DigitsVal(m.g2, 0), price.v)
             ELSE RaisedEntry
        ELSE parse_fallback(line)

\* The result of a call that returns v or raises.
Returned(v) == [raised |-> FALSE, v |-> v]

\* The loop of parse_sales_message over the first k lines: blank lines are
\* skipped, entries collected, and an exception of parse_single_line ends
\* the call.
RECURSIVE ParseLines(_, _)
ParseLines(lines, k) ==
    IF k = 0 THEN Returned(<<>>)
    ELSE LET line == Strip(lines[k])
         IN  CHOOSE next \in
                 {IF acc.raised \/ line = <<>> THEN acc
                  ELSE IF e.kind = "raise" THEN [raised |-> TRUE, v |-> <<>>]
                  ELSE IF e.kind = "entry" THEN Returned(Append(acc.v, e))
                  ELSE acc :
                    acc \in {ParseLines(lines, k - 1)},
                    e \in {parse_single_line(line)}} : TRUE

\* lines: the message split at its newlines; the strip of the whole message
\* removes nothing that the strip of each line and the skip of blank lines
\* do not remove.
parse_sales_message(lines) == ParseLines(lines, Len(lines))

\* The loop of is_sales_message from line k on: True at the first line that
\* parses, without looking at the lines after it.
RECURSIVE AnyLineParses(_, _)
AnyLineParses(lines, k) ==
    IF k > Len(lines) THEN Returned(FALSE)
    ELSE LET line == Strip(lines[k])
         IN  IF line = <<>> THEN AnyLineParses(lines, k + 1)
             ELSE CHOOSE next \in
                     {IF e.kind = "raise" THEN [raised |-> TRUE, v |-> FALSE]
                      ELSE IF e.kind = "entry" THEN Returned(TRUE)
                      ELSE AnyLineParses(lines, k + 1) :
                        e \in {parse_single_line(line)}} : TRUE

is_sales_message(lines) == AnyLineParses(lines, 1)

----------------------------------------------------------------------------
(* config.py                                                               *)

DEFAULT_MIN_STOCK == 20

\* LOW_STOCK_THRESHOLD = 1.5, as the fraction 3/2: stock <= min_stock * 1.5
\* is computed on floats that hold these integers and their halves exactly.
LOW_STOCK_THRESHOLD == [num |-> 3, den |-> 2]

CRITICAL_STOCK_THRESHOLD == 5

----------------------------------------------------------------------------
(* DataFrames: [columns |-> headers, rows |-> rows of cells].              *)

\* str.lower() on a column header.
LowerHeader(h) ==
    CASE h = "Name" -> "name"
      [] h = "Stock" -> "stock"
      [] h = "MRP" -> "mrp"
      [] OTHER -> h

\* col_map of import_from_dataframe, in dict order.
ImportColMap ==
    << <<"name", <<"medicine_name", "name", "product">> >>,
       <<"stock", <<"stock", "quantity", "qty">> >>,
       <<"min_stock", <<"min_stock", "minimum_stock">> >>,
       <<"price", <<"price", "mrp", "rate">> >> >>

\* col_map of restock_from_dataframe, in dict order.
RestockColMap ==
    << <<"name", <<"medicine_name", "name", "medicine", "product">> >>,
       <<"stock", <<"stock", "quantity", "qty">> >>,
       <<"min_stock", <<"min_stock", "minimum_stock">> >>,
       <<"price", <<"price", "mrp", "rate">> >> >>

\* list.index(x): the first position of x, 0 when absent.
IndexOf(seq, x) ==
    IF \E i \in 1..Len(seq) : seq[i] = x
    THEN CHOOSE i \in 1..Len(seq) : seq[i] = x /\ \A j \in 1..(i - 1) : seq[j] # x
    ELSE 0

\* The alias loop: the header of the first alias found among the lower-cased
\* headers, "" when none is.
FirstAlias(aliases, columns) ==
    LET df_cols == [i \in 1..Len(columns) |-> LowerHeader(columns[i])]
        hits == {a \in 1..Len(aliases) : IndexOf(df_cols, aliases[a]) # 0}
    IN  IF hits = {} THEN ""
        ELSE LET a == CHOOSE x \in hits : \A y \in hits : x <= y
             IN  columns[IndexOf(df_cols, aliases[a])]

\* actual_cols: logical field -> header, defined only on the fields found.
ActualCols(col_map, columns) ==
    LET found == {e \in 1..Len(col_map) : FirstAlias(col_map[e][2], columns) # ""}
    IN  [key \in {col_map[e][1] : e \in found} |->
            FirstAlias((col_map[CHOOSE e \in found : col_map[e][1] = key])[2], columns)]

\* row[header]
RowAt(df, r, header) == df.rows[r][IndexOf(df.columns, header)]

\* int(row.get(actual_cols.get(key), default))
RowInt(df, r, cols, key, default) ==
    IF key \in DOMAIN cols THEN PyInt(RowAt(df, r, cols[key])) ELSE Ok(default)

\* float(row.get(actual_cols.get(key), 0.0))
RowFloat(df, r, cols, key) ==
    IF key \in DOMAIN cols THEN PyFloat(RowAt(df, r, cols[key])) ELSE Ok(Float(0))

----------------------------------------------------------------------------
(* The resolver: InventoryDatabase.find_medicine.                          *)

\* The first position of meds whose search_name satisfies the test, 0 if none.
FirstIn(S) == IF S = {} THEN 0 ELSE CHOOSE i \in S : \A j \in S : i <= j

\* find_medicine with the partial tiers tried before the exact tier.
find_medicine_partial_first(meds, query0) ==
    LET query == Strip(LowerStr(query0))
        n == Len(meds)
        exact == FirstIn({i \in 1..n : meds[i].search_name = query})
        prefix == FirstIn({i \in 1..n : StartsWith(meds[i].search_name, query)})
        substr == FirstIn({i \in 1..n : Contains(meds[i].search_name, query)})
    IN  IF query = <<>> THEN [idx |-> 0, score |-> 0]
        ELSE IF prefix # 0 THEN [idx |-> prefix, score |-> 90]
        ELSE IF substr # 0 THEN [idx |-> substr, score |-> 80]
        ELSE IF exact # 0 THEN [idx |-> exact, score |-> 100]
        ELSE [idx |-> 0, score |-> 0]

\* find_medicine with one partial loop testing startswith-or-contains per record.
find_medicine_one_loop(meds, query0) ==
    LET query == Strip(LowerStr(query0))
        n == Len(meds)
        exact == FirstIn({i \in 1..n : meds[i].search_name = query})
        part == FirstIn({i \in 1..n : Contains(meds[i].search_name, query)})
    IN  IF query = <<>> THEN [idx |-> 0, score |-> 0]
        ELSE IF exact # 0 THEN [idx |-> exact, score |-> 100]
        ELSE IF part # 0
        THEN [idx |-> part,
              score |-> IF StartsWith(meds[part].search_name, query) THEN 90 ELSE 80]
        ELSE [idx |-> 0, score |-> 0]

\* find_medicine accepting a similarity only above 50, not at 50.
find_medicine_strict(meds, query0) ==
    LET query == Strip(LowerStr(query0))
        n == Len(meds)
        exact == FirstIn({i \in 1..n : meds[i].search_name = query})
        prefix == FirstIn({i \in 1..n : StartsWith(meds[i].search_name, query)})
        substr == FirstIn({i \in 1..n : Contains(meds[i].search_name, query)})
        med_names == [i \in 1..n |-> meds[i].search_name]
    IN  IF query = <<>> THEN [idx |-> 0, score |-> 0]
        ELSE IF exact # 0 THEN [idx |-> exact, score |-> 100]
        ELSE IF prefix # 0 THEN [idx |-> prefix, score |-> 90]
        ELSE IF substr # 0 THEN [idx |-> substr, score |-> 80]
        ELSE IF n = 0 THEN [idx |-> 0, score |-> 0]
        ELSE LET best == extractOne(query, med_names)
             IN  IF best.score > 50
                 THEN [idx |-> FirstIn({i \in 1..n : meds[i].search_name = best.match}),
                       score |-> best.score]
                 ELSE [idx |-> 0, score |-> 0]

NoMedicine == [idx |-> 0, score |-> 0]

\* Returns [idx, score]: idx is the position in meds of the dict returned
\* (the list element itself, by reference), 0 for None.
find_medicine(meds, query0) ==
    LET query == Strip(LowerStr(query0))
        n == Len(meds)
        exact == FirstIn({i \in 1..n : meds[i].search_name = query})
        prefix == FirstIn({i \in 1..n : StartsWith(meds[i].search_name, query)})
        substr == FirstIn({i \in 1..n : Contains(meds[i].search_name, query)})
        med_names == [i \in 1..n |-> meds[i].search_name]
    IN  IF query = <<>> THEN NoMedicine
        ELSE IF exact # 0 THEN [idx |-> exact, score |-> 100]
        ELSE IF prefix # 0 THEN [idx |-> prefix, score |-> 90]
        ELSE IF substr # 0 THEN [idx |-> substr, score |-> 80]
        ELSE IF n = 0 THEN NoMedicine
        ELSE LET best == extractOne(query, med_names)
             IN  IF best.score >= 50
                 THEN [idx |-> FirstIn({i \in 1..n : meds[i].search_name = best.match}),
                       score |-> best.score]
                 ELSE NoMedicine

----------------------------------------------------------------------------
(* Persistence: InventoryDatabase.save_database.                           *)

\* json.dump of a float: a number token, or NaN.
JsonNumber(f) == IF f.nan THEN [tok |-> "NaN", v |-> 0] ELSE [tok |-> "num", v |-> f.v]

\* json.dump of one medicine dict, key by key.
JsonMedicine(m) ==
    [id |-> m.id, name |-> m.name, search_name |-> m.search_name,
     stock |-> m.stock, min_stock |-> m.min_stock, price |-> JsonNumber(m.price),
     created_at |-> m.created_at, updated_at |-> m.updated_at]

\* The file written by save_database at clock reading t.
save_database(meds, t) ==
    [exists |-> TRUE, updated_at |-> t,
     medicines |-> [i \in 1..Len(meds) |-> JsonMedicine(meds[i])]]

NoFile == [exists |-> FALSE, updated_at |-> 0, medicines |-> <<>>]

(* InventoryDatabase.load_database.                                        *)

\* The values json.load returns.
PyDict(members) == [t |-> "dict", members |-> members]
PyList(items) == [t |-> "list", items |-> items]
PyNone == [t |-> "None"]

\* A file that save_database did not write: bytes that are or are not
\* UTF-8, whose text is or is not a JSON document, and the value of the
\* document.
OtherFile(utf8, json, data) ==
    [exists |-> TRUE, utf8 |-> utf8, json |-> json, data |-> data]

IsSnapshot(file) == "medicines" \in DOMAIN file

\* open(..., encoding='utf-8') and json.load(f): the document, or the
\* exception raised.
json_load(file) ==
    IF IsSnapshot(file)
    THEN [error |-> "",
          data |-> PyDict([updated_at |-> file.updated_at,
                           medicines |-> PyList(file.medicines)])]
    ELSE IF ~file.utf8 THEN [error |-> "UnicodeDecodeError", data |-> PyNone]
    ELSE IF ~file.json THEN [error |-> "JSONDecodeError", data |-> PyNone]
    ELSE [error |-> "", data |-> file.data]

LoadNumber_zero(j) == IF j.tok = "NaN" THEN Float(0) ELSE Float(j.v)

\* json.load of a float: a number token, or NaN.
LoadNumber(j) == IF j.tok = "NaN" THEN FloatNaN ELSE Float(j.v)

\* json.load of one medicine object.
LoadMedicine(j) ==
    [id |-> j.id, name |-> j.name, search_name |-> j.search_name,
     stock |-> j.stock, min_stock |-> j.min_stock, price |-> LoadNumber(j.price),
     created_at |-> j.created_at, updated_at |-> j.updated_at]

\* data.get('medicines', []) on a dict: a list as loaded, any other value
\* as it is.
GetMedicines(data) ==
    IF "medicines" \notin DOMAIN data.members THEN [is_list |-> TRUE, v |-> <<>>]
    ELSE LET m == data.members.medicines
         IN  IF m.t = "list"
             THEN [is_list |-> TRUE,
                   v |-> [i \in 1..Len(m.items) |-> LoadMedicine(m.items[i])]]
             ELSE [is_list |-> FALSE, v |-> m]

\* self.medicines after load_database, or the exception it lets through:
\* only JSONDecodeError and FileNotFoundError are caught.
load_database(file) ==
    IF ~file.exists THEN [raised |-> FALSE, is_list |-> TRUE, v |-> <<>>]
    ELSE LET j == json_load(file)
         IN  IF j.error = "JSONDecodeError"
             THEN [raised |-> FALSE, is_list |-> TRUE, v |-> <<>>]
             ELSE IF j.error # "" \/ j.data.t # "dict"
             THEN [raised |-> TRUE, is_list |-> TRUE, v |-> <<>>]
             ELSE LET g == GetMedicines(j.data)
                  IN  [raised |-> FALSE, is_list |-> g.is_list, v |-> g.v]

----------------------------------------------------------------------------
(* Stock operations: InventoryDatabase.update_stock.                       *)

\* update_stock without the insufficient-stock check.
update_stock_unchecked(meds, dsk, medicine_id, quantity, operation, t) ==
    LET i == FirstIn({j \in 1..Len(meds) : meds[j].id = medicine_id})
        stock == IF operation = "sold" THEN meds[i].stock - quantity
                 ELSE meds[i].stock + quantity
        after == [meds EXCEPT ![i].stock = stock, ![i].updated_at = t]
    IN  IF i = 0 THEN [meds |-> meds, disk |-> dsk, ret |-> 0]
        ELSE [meds |-> after, disk |-> save_database(after, t), ret |-> i]

\* update_stock that refreshes updated_at and saves before it checks the stock.
update_stock_touch_first(meds, dsk, medicine_id, quantity, operation, t) ==
    LET i == FirstIn({j \in 1..Len(meds) : meds[j].id = medicine_id})
        touched == [meds EXCEPT ![i].updated_at = t]
        stock == IF operation = "sold" THEN meds[i].stock - quantity
                 ELSE meds[i].stock + quantity
        after == [touched EXCEPT ![i].stock = stock]
    IN  IF i = 0 THEN [meds |-> meds, disk |-> dsk, ret |-> 0]
        ELSE IF operation = "sold" /\ meds[i].stock < quantity
        THEN [meds |-> touched, disk |-> save_database(touched, t), ret |-> 0]
        ELSE [meds |-> after, disk |-> save_database(after, t), ret |-> i]

\* update_stock whose "bought" assigns the quantity instead of adding it.
update_stock_assign(meds, dsk, medicine_id, quantity, operation, t) ==
    LET i == FirstIn({j \in 1..Len(meds) : meds[j].id = medicine_id})
        stock == IF operation = "sold" THEN meds[i].stock - quantity ELSE quantity
        after == [meds EXCEPT ![i].stock = stock, ![i].updated_at = t]
    IN  IF i = 0 THEN [meds |-> meds, disk |-> dsk, ret |-> 0]
        ELSE IF operation = "sold" /\ meds[i].stock < quantity
        THEN [meds |-> meds, disk |-> dsk, ret |-> 0]
        ELSE [meds |-> after, disk |-> save_database(after, t), ret |-> i]

\* Returns [meds, disk, ret]: the list and the file after the call, and the
\* position of the dict returned (0 for None).
update_stock(meds, dsk, medicine_id, quantity, operation, t) ==
    LET i == FirstIn({j \in 1..Len(meds) : meds[j].id = medicine_id})
        stock == CASE operation = "sold" -> meds[i].stock - quantity
                   [] operation = "bought" -> meds[i].stock + quantity
                   [] OTHER -> meds[i].stock
        after == [meds EXCEPT ![i].stock = stock, ![i].updated_at = t]
    IN  IF i = 0 THEN [meds |-> meds, disk |-> dsk, ret |-> 0]
        ELSE IF operation = "sold" /\ meds[i].stock < quantity
        THEN [meds |-> meds, disk |-> dsk, ret |-> 0]
        ELSE [meds |-> after, disk |-> save_database(after, t), ret |-> i]

----------------------------------------------------------------------------
(* Status and reporting.                                                   *)

\* stock <= min_stock * LOW_STOCK_THRESHOLD
AtWarningLevel(medicine) ==
    LOW_STOCK_THRESHOLD.den * medicine.stock
        <= medicine.min_stock * LOW_STOCK_THRESHOLD.num

\* check_stock_status testing the low level before the critical level.
check_stock_status_low_first(medicine) ==
    IF medicine.stock <= medicine.min_stock THEN "low"
    ELSE IF medicine.stock <= CRITICAL_STOCK_THRESHOLD THEN "critical"
    ELSE IF AtWarningLevel(medicine) THEN "warning"
    ELSE "ok"

check_stock_status(medicine) ==
    IF medicine.stock <= CRITICAL_STOCK_THRESHOLD THEN "critical"
    ELSE IF medicine.stock <= medicine.min_stock THEN "low"
    ELSE IF AtWarningLevel(medicine) THEN "warning"
    ELSE "ok"

\* The list comprehension: the positions of the low-stock dicts, in list
\* order.
RECURSIVE LowStockFilter(_, _)
LowStockFilter(meds, k) ==
    IF k = 0 THEN <<>>
    ELSE IF AtWarningLevel(meds[k]) THEN Append(LowStockFilter(meds, k - 1), k)
    ELSE LowStockFilter(meds, k - 1)

\* sorted(low_stock, key=stock) is stable: a position is inserted behind
\* the positions of no greater stock.
RECURSIVE InsertByStock(_, _, _)
InsertByStock(meds, sorted, i) ==
    IF sorted = <<>> THEN <<i>>
    ELSE IF meds[Head(sorted)].stock <= meds[i].stock
         THEN <<Head(sorted)>> \o InsertByStock(meds, Tail(sorted), i)
         ELSE <<i>> \o sorted

RECURSIVE SortedByStock(_, _)
SortedByStock(meds, idxs) ==
    IF idxs = <<>> THEN <<>>
    ELSE InsertByStock(meds, SortedByStock(meds, SubSeq(idxs, 1, Len(idxs) - 1)),
                       idxs[Len(idxs)])

\* get_low_stock_medicines returning the filtered list as it is.
get_low_stock_medicines_unsorted(meds) == LowStockFilter(meds, Len(meds))

\* get_low_stock_medicines keeping the dicts check_stock_status does not
\* rate 'ok', the critical ones above the warning level included.
get_low_stock_medicines_by_status(meds) ==
    SortedByStock(meds, SelectSeq([i \in 1..Len(meds) |-> i],
                                  LAMBDA i : check_stock_status(meds[i]) # "ok"))

\* Returns the positions in meds of the dicts of the returned list.
get_low_stock_medicines(meds) ==
    SortedByStock(meds, LowStockFilter(meds, Len(meds)))

----------------------------------------------------------------------------
(* Replace-all import: InventoryDatabase.import_from_dataframe.            *)

ErrRow(n) == [kind |-> "row", row |-> n]
ErrColumns == [kind |-> "columns", row |-> 0]

\* One pass of the row loop, for the row at position r (index r - 1).
ImportRow(acc, df, cols, r, t) ==
    LET name == Strip(PyStr(RowAt(df, r, cols["name"])))
        stock == RowInt(df, r, cols, "stock", 0)
        min_stock == RowInt(df, r, cols, "min_stock", DEFAULT_MIN_STOCK)
        price == RowFloat(df, r, cols, "price")
    IN  IF name = <<>> THEN acc
        ELSE IF ~(stock.ok /\ min_stock.ok /\ price.ok)
        THEN [acc EXCEPT !.errors = Append(@, ErrRow(r))]
        ELSE [acc EXCEPT
                !.meds = Append(@, [id |-> r, name |-> name,
                                    search_name |-> LowerStr(name),
                                    stock |-> stock.v, min_stock |-> min_stock.v,
                                    price |-> price.v,
                                    created_at |-> t, updated_at |-> t]),
                !.success_count = @ + 1]

\* The row loop over the first k rows, starting from the cleared list.
RECURSIVE ImportRows(_, _, _, _)
ImportRows(df, cols, k, t) ==
    IF k = 0 THEN [meds |-> <<>>, success_count |-> 0, errors |-> <<>>]
    ELSE CHOOSE next \in {ImportRow(acc, df, cols, k, t) :
                             acc \in {ImportRows(df, cols, k - 1, t)}} : TRUE

\* import_from_dataframe without the save_database() after the row loop:
\* the file keeps what clear_database() wrote.
import_from_dataframe_unsaved(meds, dsk, df, t) ==
    LET cols == ActualCols(ImportColMap, df.columns)
        acc == ImportRows(df, cols, Len(df.rows), t)
    IN  IF "name" \notin DOMAIN cols
        THEN [ok |-> FALSE, meds |-> meds, disk |-> dsk,
              success_count |-> 0, errors |-> <<ErrColumns>>]
        ELSE [ok |-> TRUE, meds |-> acc.meds, disk |-> save_database(<<>>, t),
              success_count |-> acc.success_count, errors |-> acc.errors]

\* import_from_dataframe without clear_database(): the rows' records are
\* appended to the records already in the list.
import_from_dataframe_append(meds, dsk, df, t) ==
    LET cols == ActualCols(ImportColMap, df.columns)
        acc == ImportRows(df, cols, Len(df.rows), t)
    IN  IF "name" \notin DOMAIN cols
        THEN [ok |-> FALSE, meds |-> meds, disk |-> dsk,
              success_count |-> 0, errors |-> <<ErrColumns>>]
        ELSE [ok |-> TRUE, meds |-> meds \o acc.meds,
              disk |-> save_database(meds \o acc.meds, t),
              success_count |-> acc.success_count, errors |-> acc.errors]

\* import_from_dataframe calling clear_database() before it looks for the
\* name column.
import_from_dataframe_clear_first(meds, dsk, df, t) ==
    LET cols == ActualCols(ImportColMap, df.columns)
        acc == ImportRows(df, cols, Len(df.rows), t)
    IN  IF "name" \notin DOMAIN cols
        THEN [ok |-> FALSE, meds |-> <<>>, disk |-> save_database(<<>>, t),
              success_count |-> 0, errors |-> <<ErrColumns>>]
        ELSE [ok |-> TRUE, meds |-> acc.meds, disk |-> save_database(acc.meds, t),
              success_count |-> acc.success_count, errors |-> acc.errors]

\* Returns [ok, meds, disk, success_count, errors]; ok is FALSE on the early
\* return for a missing name column. clear_database() writes the empty list,
\* and the save_database() after the loop writes the file again.
import_from_dataframe(meds, dsk, df, t) ==
    LET cols == ActualCols(ImportColMap, df.columns)
        acc == ImportRows(df, cols, Len(df.rows), t)
    IN  IF "name" \notin DOMAIN cols
        THEN [ok |-> FALSE, meds |-> meds, disk |-> dsk,
              success_count |-> 0, errors |-> <<ErrColumns>>]
        ELSE [ok |-> TRUE, meds |-> acc.meds, disk |-> save_database(acc.meds, t),
              success_count |-> acc.success_count, errors |-> acc.errors]

----------------------------------------------------------------------------
(* Merge import: InventoryDatabase.restock_from_dataframe.                 *)

\* The id of the first record in place of the largest one.
MaxId_first(meds) == IF meds = <<>> THEN 0 ELSE meds[1].id

MaxId(meds) ==
    IF meds = <<>> THEN 0
    ELSE CHOOSE x \in {meds[i].id : i \in 1..Len(meds)} :
            \A i \in 1..Len(meds) : meds[i].id <= x

\* The update branch assigning the row's stock instead of adding it.
RestockUpdate_assign(acc, i, stock_to_add, df, cols, r, t) ==
    [acc EXCEPT !.meds = [@ EXCEPT ![i].stock = stock_to_add, ![i].updated_at = t],
                !.updated_count = @ + 1,
                !.steps = Append(@, "updated")]

\* The update branch writing min_stock and price as the new-entry branch
\* reads them, with the defaults for an absent column.
RestockUpdate_defaults(acc, i, stock_to_add, df, cols, r, t) ==
    [acc EXCEPT
        !.meds = [@ EXCEPT ![i].stock = @ + stock_to_add,
                           ![i].min_stock = RowInt(df, r, cols, "min_stock",
                                                   DEFAULT_MIN_STOCK).v,
                           ![i].price = RowFloat(df, r, cols, "price").v,
                           ![i].updated_at = t],
        !.updated_count = @ + 1,
        !.steps = Append(@, "updated")]

\* The branch "UPDATING EXISTING MEDICINE" for the dict at position i: it
\* assigns stock, then min_stock, then price, then updated_at, and an
\* exception raised by a conversion leaves the assignments already made.
RestockUpdate(acc, i, stock_to_add, df, cols, r, t) ==
    LET has_min == "min_stock" \in DOMAIN cols
        has_price == "price" \in DOMAIN cols
        upd_min == IF has_min THEN PyInt(RowAt(df, r, cols["min_stock"])) ELSE Ok(0)
        upd_price == IF has_price THEN PyFloat(RowAt(df, r, cols["price"]))
                     ELSE Ok(Float(0))
    IN  IF ~upd_min.ok
        THEN [acc EXCEPT !.meds = [@ EXCEPT ![i].stock = @ + stock_to_add],
                         !.not_found = Append(@, ErrRow(r)),
                         !.steps = Append(@, "error")]
        ELSE IF ~upd_price.ok
        THEN [acc EXCEPT
                !.meds = [@ EXCEPT ![i].stock = @ + stock_to_add,
                                   ![i].min_stock = IF has_min THEN upd_min.v ELSE @],
                !.not_found = Append(@, ErrRow(r)),
                !.steps = Append(@, "error")]
        ELSE [acc EXCEPT
                !.meds = [@ EXCEPT ![i].stock = @ + stock_to_add,
                                   ![i].min_stock = IF has_min THEN upd_min.v ELSE @,
                                   ![i].price = IF has_price THEN upd_price.v ELSE @,
                                   ![i].updated_at = t],
                !.updated_count = @ + 1,
                !.updates_detail =
                    Append(@, [name |-> acc.meds[i].name,
                               old_stock |-> acc.meds[i].stock,
                               new_stock |-> acc.meds[i].stock + stock_to_add,
                               added |-> stock_to_add,
                               status |-> "updated"]),
                !.steps = Append(@, "updated")]

\* The new-entry branch numbering the record by the length of the list.
RestockNew_count_id(acc, name_query, stock_to_add, df, cols, r, t) ==
    [acc EXCEPT
        !.meds = Append(@, [id |-> Len(acc.meds) + 1, name |-> name_query,
                            search_name |-> LowerStr(name_query),
                            stock |-> stock_to_add,
                            min_stock |-> RowInt(df, r, cols, "min_stock",
                                                 DEFAULT_MIN_STOCK).v,
                            price |-> RowFloat(df, r, cols, "price").v,
                            created_at |-> t, updated_at |-> t]),
        !.new_count = @ + 1,
        !.steps = Append(@, "new")]

\* The branch "NEW MEDICINE ENTRY".
RestockNew(acc, name_query, stock_to_add, df, cols, r, t) ==
    LET min_stock == RowInt(df, r, cols, "min_stock", DEFAULT_MIN_STOCK)
        price == RowFloat(df, r, cols, "price")
    IN  IF ~(min_stock.ok /\ price.ok)
        THEN [acc EXCEPT !.not_found = Append(@, ErrRow(r)),
                         !.steps = Append(@, "error")]
        ELSE [acc EXCEPT
                !.meds = Append(@, [id |-> MaxId(acc.meds) + 1, name |-> name_query,
                                    search_name |-> LowerStr(name_query),
                                    stock |-> stock_to_add,
                                    min_stock |-> min_stock.v, price |-> price.v,
                                    created_at |-> t, updated_at |-> t]),
                !.new_count = @ + 1,
                !.updates_detail =
                    Append(@, [name |-> name_query, old_stock |-> 0,
                               new_stock |-> stock_to_add,
                               added |-> stock_to_add, status |-> "new"]),
                !.steps = Append(@, "new")]

\* The row loop updating whatever record the resolver returns, without the
\* score >= 60 test.
RestockRow_any_match(acc, df, cols, r, t) ==
    LET name_query == Strip(PyStr(RowAt(df, r, cols["name"])))
        stock_to_add == RowInt(df, r, cols, "stock", 0)
        found == find_medicine(acc.meds, name_query)
    IN  IF name_query = <<>> THEN [acc EXCEPT !.steps = Append(@, "skip")]
        ELSE IF ~stock_to_add.ok
        THEN [acc EXCEPT !.not_found = Append(@, ErrRow(r)),
                         !.steps = Append(@, "error")]
        ELSE IF found.idx # 0
        THEN RestockUpdate(acc, found.idx, stock_to_add.v, df, cols, r, t)
        ELSE RestockNew(acc, name_query, stock_to_add.v, df, cols, r, t)

\* The row loop resolving each name among the records the list had before
\* the batch, not among those the batch created.
RestockRow_prior_only(acc, df, cols, r, t) ==
    LET name_query == Strip(PyStr(RowAt(df, r, cols["name"])))
        stock_to_add == RowInt(df, r, cols, "stock", 0)
        found == find_medicine(SubSeq(acc.meds, 1, Len(acc.meds) - acc.new_count),
                               name_query)
    IN  IF name_query = <<>> THEN [acc EXCEPT !.steps = Append(@, "skip")]
        ELSE IF ~stock_to_add.ok
        THEN [acc EXCEPT !.not_found = Append(@, ErrRow(r)),
                         !.steps = Append(@, "error")]
        ELSE IF found.idx # 0 /\ found.score >= 60
        THEN RestockUpdate(acc, found.idx, stock_to_add.v, df, cols, r, t)
        ELSE RestockNew(acc, name_query, stock_to_add.v, df, cols, r, t)

\* One pass of the row loop, for the row at position r (index r - 1).
RestockRow(acc, df, cols, r, t) ==
    LET name_query == Strip(PyStr(RowAt(df, r, cols["name"])))
        stock_to_add == RowInt(df, r, cols, "stock", 0)
        found == find_medicine(acc.meds, name_query)
    IN  IF name_query = <<>> THEN [acc EXCEPT !.steps = Append(@, "skip")]
        ELSE IF ~stock_to_add.ok
        THEN [acc EXCEPT !.not_found = Append(@, ErrRow(r)),
                         !.steps = Append(@, "error")]
        ELSE IF found.idx # 0 /\ found.score >= 60
        THEN RestockUpdate(acc, found.idx, stock_to_add.v, df, cols, r, t)
        ELSE RestockNew(acc, name_query, stock_to_add.v, df, cols, r, t)

\* The row loop over the first k rows. steps records which branch each row
\* took; it is not a value of the program.
RECURSIVE RestockRows(_, _, _, _, _)
RestockRows(meds, df, cols, k, t) ==
    IF k = 0
    THEN [meds |-> meds, updated_count |-> 0, new_count |-> 0,
          not_found |-> <<>>, updates_detail |-> <<>>, steps |-> <<>>]
    ELSE CHOOSE next \in {RestockRow(acc, df, cols, k, t) :
                             acc \in {RestockRows(meds, df, cols, k - 1, t)}} : TRUE

\* The merge clearing the list before its row loop, as the replace-all
\* import does.
restock_from_dataframe_replace(meds, dsk, df, t) ==
    LET cols == ActualCols(RestockColMap, df.columns)
        n == Len(df.rows)
        acc == RestockRows(<<>>, df, cols, n, t)
    IN  IF "name" \notin DOMAIN cols
        THEN [ok |-> FALSE, meds |-> meds, disk |-> dsk,
              updated_count |-> 0, new_count |-> 0,
              not_found |-> <<ErrColumns>>, updates_detail |-> <<>>,
              steps |-> <<>>, trace |-> <<>>]
        ELSE [ok |-> TRUE, meds |-> acc.meds, disk |-> save_database(acc.meds, t),
              updated_count |-> acc.updated_count, new_count |-> acc.new_count,
              not_found |-> acc.not_found, updates_detail |-> acc.updates_detail,
              steps |-> acc.steps,
              trace |-> [k \in 1..n |-> RestockRows(<<>>, df, cols, k, t).meds]]

\* Returns [ok, meds, disk, updated_count, new_count, not_found,
\* updates_detail], and trace: the list after each row.
restock_from_dataframe(meds, dsk, df, t) ==
    LET cols == ActualCols(RestockColMap, df.columns)
        n == Len(df.rows)
        acc == RestockRows(meds, df, cols, n, t)
    IN  IF "name" \notin DOMAIN cols
        THEN [ok |-> FALSE, meds |-> meds, disk |-> dsk,
              updated_count |-> 0, new_count |-> 0,
              not_found |-> <<ErrColumns>>, updates_detail |-> <<>>,
              steps |-> <<>>, trace |-> <<>>]
        ELSE [ok |-> TRUE, meds |-> acc.meds, disk |-> save_database(acc.meds, t),
              updated_count |-> acc.updated_count, new_count |-> acc.new_count,
              not_found |-> acc.not_found, updates_detail |-> acc.updates_detail,
              steps |-> acc.steps,
              trace |-> [k \in 1..n |-> RestockRows(meds, df, cols, k, t).meds]]

----------------------------------------------------------------------------
(* Inputs of the handlers.                                                 *)

ab == <<"a", "b">>
Ab == <<" ", "A", "b">>
cab == <<"c", "a", "b">>
abc == <<"a", "b", "c">>
ac == <<"a", "c">>
xx == <<"x">>

Frame(columns, rows) == [columns |-> columns, rows |-> rows]

\* Tables with the headers Name and Stock: two display names of one
\* normalized name; a negative stock; a non-numeric stock before a good
\* row; an exact name behind a name containing it and a name starting with
\* it; a blank and a missing name; a name that resembles "ab" with the
\* score 50.
NameStockFrames ==
    {Frame(<<"Name", "Stock">>, rows) : rows \in
        {<< <<StrCell(ab), IntCell(2)>>, <<StrCell(Ab), IntCell(1)>> >>,
         << <<StrCell(cab), IntCell(-1)>> >>,
         << <<StrCell(ab), StrCell(xx)>>, <<StrCell(cab), IntCell(2)>> >>,
         << <<StrCell(cab), IntCell(1)>>, <<StrCell(abc), IntCell(1)>>,
            <<StrCell(ab), IntCell(2)>> >>,
         << <<StrCell(<<" ">>), IntCell(1)>>, <<NanCell, IntCell(1)>> >>,
         << <<StrCell(ac), IntCell(1)>> >>}}

\* Tables with all four logical columns: all cells numeric, a non-numeric
\* min_stock, a non-numeric price.
FullFrames ==
    {Frame(<<"name", "stock", "min_stock", "MRP">>,
           << <<StrCell(ab), IntCell(1), c[1], c[2]>> >>) :
        c \in {<<IntCell(3), IntCell(7)>>, <<StrCell(xx), IntCell(7)>>,
               <<IntCell(3), StrCell(xx)>>}}

\* A table whose name column is headed "medicine".
AliasFrames == {Frame(<<"medicine", "qty">>, << <<StrCell(ab), IntCell(1)>> >>)}

\* A table none of whose headers is a name alias.
NamelessFrames == {Frame(<<"item", "qty">>, << <<StrCell(ab), IntCell(1)>> >>)}

DataFrames == NameStockFrames \cup FullFrames \cup AliasFrames \cup NamelessFrames

Quantities == (0 - MaxQty)..MaxQty

Operations == {"sold", "bought"}

\* Ids passed to update_stock: those of the longest table's rows; after a
\* shorter import some of them name no record.
Ids == {1, 2, 3}

Queries == {ab, <<"A", "B", " ">>, <<"a">>, <<"b">>, <<"a", "c">>,
            <<"a", "b", "d">>, <<"d">>, <<" ">>}

----------------------------------------------------------------------------
(* The state machine. `now` is the reading of datetime.now() during the    *)
(* next handler call (time passes from one call to the next); `last`       *)
(* records the last call: its arguments, the list and the file it started  *)
(* from, and what it returned.                                             *)

Init ==
    /\ medicines = <<>>
    /\ disk = NoFile
    /\ now = 0
    /\ sales = <<>>
    /\ last = [op |-> "init"]

\* handle_document: db.import_from_dataframe(df)
Import(df) ==
    /\ now < MaxClock
    /\ \E r \in {import_from_dataframe(medicines, disk, df, now)} :
           /\ medicines' = r.meds
           /\ disk' = r.disk
           /\ last' = [op |-> "import", df |-> df, before |-> medicines,
                       disk_before |-> disk, ok |-> r.ok,
                       success_count |-> r.success_count, errors |-> r.errors]
    /\ now' = now + 1
    /\ UNCHANGED sales

\* db.restock_from_dataframe(df)
Restock(df) ==
    /\ now < MaxClock
    /\ \E r \in {restock_from_dataframe(medicines, disk, df, now)} :
           /\ medicines' = r.meds
           /\ disk' = r.disk
           /\ last' = [op |-> "restock", df |-> df, before |-> medicines,
                       disk_before |-> disk, ok |-> r.ok,
                       updated_count |-> r.updated_count,
                       new_count |-> r.new_count, not_found |-> r.not_found,
                       updates_detail |-> r.updates_detail,
                       steps |-> r.steps, trace |-> r.trace]
    /\ now' = now + 1
    /\ UNCHANGED sales

\* process_sales: db.update_stock(medicine_id, quantity, operation)
UpdateStock(medicine_id, quantity, operation) ==
    /\ now < MaxClock
    /\ \E r \in {update_stock(medicines, disk, medicine_id, quantity, operation, now)} :
           /\ medicines' = r.meds
           /\ disk' = r.disk
           /\ last' = [op |-> "update_stock", id |-> medicine_id,
                       quantity |-> quantity, operation |-> operation,
                       before |-> medicines, disk_before |-> disk,
                       ret |-> r.ret]
    /\ now' = now + 1
    /\ UNCHANGED sales

\* process_sales: db.find_medicine(query)
Find(query) ==
    /\ now < MaxClock
    /\ \E r \in {find_medicine(medicines, query)} :
           last' = [op |-> "find", query |-> query, idx |-> r.idx,
                    score |-> r.score]
    /\ now' = now + 1
    /\ UNCHANGED sales
    /\ UNCHANGED <<medicines, disk>>

Next ==
    \/ \E df \in DataFrames : Import(df)
    \/ \E df \in DataFrames : Restock(df)
    \/ \E id \in Ids, q \in Quantities, o \in Operations : UpdateStock(id, q, o)
    \/ \E query \in Queries : Find(query)

Spec == Init /\ [][Next]_vars

----------------------------------------------------------------------------
(* Sales on a stocked ledger: the list as a replace-all import of a table  *)
(* with non-negative stock left it, then update_stock calls with           *)
(* quantity > 0 only.                                                      *)

SalesFrames ==
    {df \in DataFrames :
        LET r == import_from_dataframe(<<>>, NoFile, df, 0)
        IN  /\ r.ok
            /\ r.meds # <<>>
            /\ \A i \in 1..Len(r.meds) : r.meds[i].stock >= 0}

InitSales ==
    \E df \in SalesFrames :
        \E r \in {import_from_dataframe(<<>>, NoFile, df, 0)} :
            /\ medicines = r.meds
            /\ disk = r.disk
            /\ now = 1
            /\ sales = <<>>
            /\ last = [op |-> "import", df |-> df, before |-> <<>>,
                       disk_before |-> NoFile, ok |-> r.ok,
                       success_count |-> r.success_count, errors |-> r.errors]

NextSales ==
    \E id \in Ids, q \in 1..MaxQty, o \in Operations : UpdateStock(id, q, o)

SpecSales == InitSales /\ [][NextSales]_vars

----------------------------------------------------------------------------
(* Reports on a stocked ledger: the list as a replace-all import of a      *)
(* table with stock and min_stock columns left it, then the status and     *)
(* low-stock queries.                                                      *)

\* Stock values around the levels of min_stock 20 and of min_stock 3.
StockLevels == {3, 5, 6, 20, 21, 30, 31}

MinStockLevels == {3, 20}

ReportNames == <<ab, cab, abc>>

ReportRows ==
    UNION {[1..n -> StockLevels \X MinStockLevels] : n \in 1..Len(ReportNames)}

ReportFrames ==
    {Frame(<<"name", "stock", "min_stock">>,
           [r \in DOMAIN rows |-> <<StrCell(ReportNames[r]), IntCell(rows[r][1]),
                                    IntCell(rows[r][2])>>]) :
        rows \in ReportRows}

InitReport ==
    \E df \in ReportFrames :
        \E r \in {import_from_dataframe(<<>>, NoFile, df, 0)} :
            /\ medicines = r.meds
            /\ disk = r.disk
            /\ now = 1
            /\ sales = <<>>
            /\ last = [op |-> "import", df |-> df, before |-> <<>>,
                       disk_before |-> NoFile, ok |-> r.ok,
                       success_count |-> r.success_count, errors |-> r.errors]

\* show_inventory: db.check_stock_status(med) for a dict of the list
CheckStatus(i) ==
    /\ now < MaxClock
    /\ i \in 1..Len(medicines)
    /\ last' = [op |-> "check_stock_status", idx |-> i,
                status |-> check_stock_status(medicines[i]),
                before |-> medicines, disk_before |-> disk]
    /\ now' = now + 1
    /\ UNCHANGED sales
    /\ UNCHANGED <<medicines, disk>>

\* show_low_stock: db.get_low_stock_medicines()
LowStock ==
    /\ now < MaxClock
    /\ last' = [op |-> "get_low_stock_medicines",
                low_stock |-> get_low_stock_medicines(medicines),
                before |-> medicines, disk_before |-> disk]
    /\ now' = now + 1
    /\ UNCHANGED sales
    /\ UNCHANGED <<medicines, disk>>

NextReport ==
    \/ \E i \in 1..Len(ReportNames) : CheckStatus(i)
    \/ LowStock

SpecReport == InitReport /\ [][NextReport]_vars

----------------------------------------------------------------------------
(* The sale-line parser on one line of a message.                          *)

MaxTokens == 4

\* The pieces lines are made of: a name, nothing (which doubles a space),
\* and numerals with and without sign and point.
Tokens == {<<"a">>, <<>>, <<"0">>, <<"2">>, <<"-", "2">>, <<"2", ".", "5">>,
           <<".">>, <<"n", "a", "n">>}

\* " ".join(tokens), empty tokens included.
RECURSIVE JoinAll(_)
JoinAll(ts) ==
    IF ts = <<>> THEN <<>>
    ELSE IF Len(ts) = 1 THEN ts[1]
    ELSE ts[1] \o <<" ">> \o JoinAll(Tail(ts))

\* The non-blank lines, stripped as parse_sales_message and
\* is_sales_message strip them before the call.
Lines ==
    {Strip(JoinAll(ts)) : ts \in UNION {[1..n -> Tokens] : n \in 1..MaxTokens}}
        \ {<<>>}

MaxLines == 3

\* The lines messages are made of: a line of the primary pattern, a line of
\* the fallback, a line that does not parse, a blank line, a line whose
\* price is a lone point, and a line with spaces around it.
MessageLines ==
    {<<"a", " ", "2", " ", "2">>, <<"a", " ", "-", "2", " ", "2">>, <<"a">>,
     <<>>, <<"a", " ", "2", " ", ".">>,
     <<" ", "a", " ", "0", " ", "2", ".", "5", " ">>}

Messages == UNION {[1..n -> MessageLines] : n \in 1..MaxLines}

InitParser ==
    /\ medicines = <<>>
    /\ disk = NoFile
    /\ now = 0
    /\ sales = <<>>
    /\ \/ \E line \in Lines : last = [op |-> "line", line |-> line]
       \/ \E lines \in Messages : last = [op |-> "message", lines |-> lines]

\* parse_sales_message: entry = self.parse_single_line(line)
ParseSingleLine ==
    /\ last.op = "line"
    /\ last' = [op |-> "parse_single_line", line |-> last.line,
                entry |-> parse_single_line(last.line)]
    /\ now' = now + 1
    /\ UNCHANGED sales
    /\ UNCHANGED <<medicines, disk>>

\* handle_message: sales_parser.is_sales_message(text), and process_sales:
\* sales_parser.parse_sales_message(message_text), on the same text
SalesMessage ==
    /\ last.op = "message"
    /\ last' = [op |-> "sales_message", lines |-> last.lines,
                is_sales |-> is_sales_message(last.lines),
                parsed |-> parse_sales_message(last.lines)]
    /\ now' = now + 1
    /\ UNCHANGED sales
    /\ UNCHANGED <<medicines, disk>>

NextParser == ParseSingleLine \/ SalesMessage

SpecParser == InitParser /\ [][NextParser]_vars

----------------------------------------------------------------------------
(* Merges of tables that name a medicine twice, on the list a replace-all  *)
(* import left (the empty list, when the import was refused).              *)

nan_name == <<"n", "a", "n">>

SameNameFrames ==
    {Frame(<<"name", "stock">>,
           << <<StrCell(xx), IntCell(1)>>, <<StrCell(xx), IntCell(2)>> >>),
     Frame(<<"Name", "Stock">>,
           << <<StrCell(ab), IntCell(2)>>, <<StrCell(ab), IntCell(1)>> >>),
     Frame(<<"Name", "Stock">>,
           << <<StrCell(nan_name), IntCell(2)>>, <<NanCell, IntCell(-1)>> >>),
     Frame(<<"name", "stock">>,
           << <<StrCell(xx), IntCell(1)>>, <<StrCell(ac), IntCell(2)>> >>)}

InitMerge ==
    \E df \in DataFrames :
        \E r \in {import_from_dataframe(<<>>, NoFile, df, 0)} :
            /\ medicines = r.meds
            /\ disk = r.disk
            /\ now = 1
            /\ sales = <<>>
            /\ last = [op |-> "import", df |-> df, before |-> <<>>,
                       disk_before |-> NoFile, ok |-> r.ok,
                       success_count |-> r.success_count, errors |-> r.errors]

NextMerge == \E df \in SameNameFrames : Restock(df)

SpecMerge == InitMerge /\ [][NextMerge]_vars

----------------------------------------------------------------------------
(* Sale batches: process_sales of bot.py on a stocked ledger.  `sales`     *)
(* holds the local variables of each running process_sales.  The body of   *)
(* its loop is two calls, db.find_medicine and db.update_stock, with no    *)
(* await between them; the steps below are one call each and any request   *)
(* may run between them, which covers every schedule of the event loop.    *)
(* The fields before, seen and lines, and the id of a success_tx entry,    *)
(* are not values of the program: they record the list at the start of     *)
(* the batch, the stock the resolver saw and the outcome of each line.     *)

\* process_sales up to its loop: parse_sales_message, the early return on
\* an empty result, and the empty result lists.
StartSales(message, meds) ==
    LET parsed_sales == parse_sales_message(message).v
    IN  [parsed_sales |-> parsed_sales, k |-> 0,
         pc |-> IF parsed_sales = <<>> THEN "done" ELSE "find",
         med |-> [id |-> 0, name |-> <<>>], seen |-> 0,
         success_tx |-> <<>>, insufficient |-> <<>>, not_found |-> <<>>,
         before |-> meds, lines |-> <<>>]

\* The end of one pass of the loop: the next sale, or the end of the loop.
NextSale(s) ==
    [s EXCEPT !.k = @ + 1,
              !.pc = IF s.k + 1 = Len(s.parsed_sales) THEN "done" ELSE "find"]

\* A line without a match ending the loop, as a break would.
SaleFind_break(s, meds) ==
    LET sale == s.parsed_sales[s.k + 1]
        r == find_medicine(meds, sale.medicine_query)
    IN  IF r.idx = 0
        THEN [s EXCEPT !.not_found = Append(@, sale.medicine_query),
                       !.lines = Append(@, [outcome |-> "not_found", id |-> 0,
                                            quantity |-> sale.quantity]),
                       !.k = @ + 1, !.pc = "done"]
        ELSE [s EXCEPT !.med = [id |-> meds[r.idx].id, name |-> meds[r.idx].name],
                       !.seen = meds[r.idx].stock,
                       !.pc = "update"]

\* med, score = db.find_medicine(sale['medicine_query']) and the branch
\* "if not med".
SaleFind(s, meds) ==
    LET sale == s.parsed_sales[s.k + 1]
        r == find_medicine(meds, sale.medicine_query)
    IN  IF r.idx = 0
        THEN NextSale([s EXCEPT
                 !.not_found = Append(@, sale.medicine_query),
                 !.lines = Append(@, [outcome |-> "not_found", id |-> 0,
                                      quantity |-> sale.quantity])])
        ELSE [s EXCEPT !.med = [id |-> meds[r.idx].id, name |-> meds[r.idx].name],
                       !.seen = meds[r.idx].stock,
                       !.pc = "update"]

\* The sale applied on the stock the resolver saw, not on the stock the
\* record has when update_stock runs.
SaleUpdate_stale(s, meds, dsk, t) ==
    LET sale == s.parsed_sales[s.k + 1]
    IN  IF s.seen < sale.quantity THEN [meds |-> meds, disk |-> dsk, ret |-> 0]
        ELSE update_stock_unchecked(meds, dsk, s.med.id, sale.quantity, "sold", t)

\* updated_med = db.update_stock(med['id'], sale['quantity'], 'sold')
SaleUpdate(s, meds, dsk, t) ==
    update_stock(meds, dsk, s.med.id, s.parsed_sales[s.k + 1].quantity, "sold", t)

\* The branches "if not updated_med" and else, for the result r of
\* update_stock.
SaleRecord(s, r) ==
    LET sale == s.parsed_sales[s.k + 1]
    IN  IF r.ret = 0
        THEN NextSale([s EXCEPT
                 !.insufficient = Append(@, s.med.name),
                 !.lines = Append(@, [outcome |-> "insufficient", id |-> s.med.id,
                                      quantity |-> sale.quantity])])
        ELSE NextSale([s EXCEPT
                 !.success_tx =
                     Append(@, [medicine_name |-> r.meds[r.ret].name,
                                quantity |-> sale.quantity, price |-> sale.price,
                                type |-> "sold",
                                remaining_stock |-> r.meds[r.ret].stock,
                                id |-> r.meds[r.ret].id]),
                 !.lines = Append(@, [outcome |-> "sold", id |-> r.meds[r.ret].id,
                                      quantity |-> sale.quantity])])

\* A name no record of the tables resembles.
unknown == <<"d">>

SaleLine(name, quantity) == name \o <<" ">> \o quantity \o <<" ", "2">>

\* Sale messages: one line; two lines of one medicine; a line without a
\* match before a line with one; lines of two medicines; a line of the
\* fallback with a negative quantity; a message without a sale line.
SaleMessages ==
    {<<SaleLine(ab, <<"1">>)>>,
     <<SaleLine(ab, <<"2">>), SaleLine(ab, <<"1">>)>>,
     <<SaleLine(unknown, <<"1">>), SaleLine(ab, <<"1">>)>>,
     <<SaleLine(cab, <<"2">>), SaleLine(ab, <<"1">>)>>,
     <<SaleLine(ab, <<"-", "1">>)>>,
     <<ab>>}

\* Two messages dispatched on the list a replace-all import of a table with
\* non-negative stock left.
InitBatches ==
    \E df \in SalesFrames, m1 \in SaleMessages, m2 \in SaleMessages :
        \E r \in {import_from_dataframe(<<>>, NoFile, df, 0)} :
            /\ medicines = r.meds
            /\ disk = r.disk
            /\ now = 1
            /\ last = [op |-> "import", df |-> df, before |-> <<>>,
                       disk_before |-> NoFile, ok |-> r.ok,
                       success_count |-> r.success_count, errors |-> r.errors]
            /\ sales = <<StartSales(m1, r.meds), StartSales(m2, r.meds)>>

\* process_sales of batch b: db.find_medicine
FindStep(b) ==
    /\ sales[b].pc = "find"
    /\ sales' = [sales EXCEPT ![b] = SaleFind(sales[b], medicines)]
    /\ last' = [op |-> "sale_find", batch |-> b, before |-> medicines,
                disk_before |-> disk]
    /\ UNCHANGED <<medicines, disk, now>>

\* process_sales of batch b: db.update_stock and the result lists
UpdateStep(b) ==
    /\ sales[b].pc = "update"
    /\ \E r \in {SaleUpdate(sales[b], medicines, disk, now)} :
           /\ medicines' = r.meds
           /\ disk' = r.disk
           /\ sales' = [sales EXCEPT ![b] = SaleRecord(sales[b], r)]
           /\ last' = [op |-> "sale_update", batch |-> b, before |-> medicines,
                       disk_before |-> disk, ret |-> r.ret,
                       med |-> sales[b].med, seen |-> sales[b].seen,
                       quantity |-> sales[b].parsed_sales[sales[b].k + 1].quantity]
    /\ now' = now + 1

NextBatches == \E b \in {1, 2} : FindStep(b) \/ UpdateStep(b)

SpecBatches == InitBatches /\ [][NextBatches]_vars

\* One message dispatched, and documents uploaded while it is processed.
InitSaleImport == InitBatches /\ sales[2].parsed_sales = <<>>

NextSaleImport ==
    \/ FindStep(1)
    \/ UpdateStep(1)
    \/ \E df \in DataFrames : Import(df)

SpecSaleImport == InitSaleImport /\ [][NextSaleImport]_vars

----------------------------------------------------------------------------
(* Start of the process on the file an earlier run left: __init__ and      *)
(* load_database, then save_database and a new start.                      *)

NanPriceFrames ==
    {Frame(<<"name", "stock", "price">>,
           << <<StrCell(ab), IntCell(1), NanCell>>,
              <<StrCell(cab), IntCell(2), IntCell(3)>> >>)}

LoadFrames == DataFrames \cup NanPriceFrames \cup ReportFrames

\* The results of the replace-all imports, whose save_database wrote the
\* file.
Imported ==
    {r \in {import_from_dataframe(<<>>, NoFile, df, 1) : df \in LoadFrames} : r.ok}

Snapshots == {r.disk : r \in Imported}

\* Files save_database did not write: bytes that are not UTF-8, text that
\* is not JSON (garbage, an empty or a truncated file), the documents
\* [] and null, {} and {"medicines": null}.
OtherFiles ==
    {OtherFile(FALSE, FALSE, PyNone), OtherFile(TRUE, FALSE, PyNone),
     OtherFile(TRUE, TRUE, PyList(<<>>)), OtherFile(TRUE, TRUE, PyNone),
     OtherFile(TRUE, TRUE, PyDict(<<>>)),
     OtherFile(TRUE, TRUE, PyDict([medicines |-> PyNone]))}

StoredFiles == {NoFile} \cup Snapshots \cup OtherFiles

\* InventoryDatabase.__init__ before its call of load_database, on any
\* file; or the process at the return of the save_database that ends an
\* import.
InitLoad ==
    /\ now = 2
    /\ sales = <<>>
    /\ \/ /\ medicines = <<>>
          /\ disk \in StoredFiles
          /\ last = [op |-> "__init__"]
       \/ \E r \in Imported :
             /\ medicines = r.meds
             /\ disk = r.disk
             /\ last = [op |-> "save_database", saved |-> r.meds]

\* __init__: self.load_database()
LoadDatabase ==
    /\ last.op \in {"__init__", "save_database"}
    /\ \E r \in {load_database(disk)} :
           /\ medicines' = IF r.raised THEN <<>> ELSE r.v
           /\ last' = [op |-> "load_database", raised |-> r.raised,
                       is_list |-> r.is_list,
                       after_save |-> last.op = "save_database",
                       saved |-> IF last.op = "save_database" THEN last.saved
                                 ELSE <<>>]
    /\ UNCHANGED <<disk, now, sales>>

\* self.save_database()
SaveDatabase ==
    /\ last.op = "load_database"
    /\ ~last.raised
    /\ last.is_list
    /\ now < MaxClock
    /\ disk' = save_database(medicines, now)
    /\ last' = [op |-> "save_database", saved |-> medicines]
    /\ now' = now + 1
    /\ UNCHANGED sales
    /\ UNCHANGED medicines

NextLoad == LoadDatabase \/ SaveDatabase

SpecLoad == InitLoad /\ [][NextLoad]_vars

----------------------------------------------------------------------------
(* Properties.                                                             *)

\* The query as find_medicine normalizes it.
Norm(query) == Strip(LowerStr(query))

\* The position in meds of the record update_stock targets, 0 if none.
Target(meds, id) == FirstIn({j \in 1..Len(meds) : meds[j].id = id})

\* The JSON form of the list.
JsonList(meds) == [i \in 1..Len(meds) |-> JsonMedicine(meds[i])]

\* C1: in every reachable ledger state (any adjust, replace-all import and
\* merge import calls, arbitrary integer quantities and row stock values)
\* every record has stock >= 0.
C1_StockNeverNegative ==
    \A i \in 1..Len(medicines) : medicines[i].stock >= 0

\* C2: along every sequence of adjust calls with quantity > 0 that starts
\* from a ledger whose records all have stock >= 0, no record's stock is
\* negative in any state.
C2_SalesKeepStockNonNegative ==
    ~ \E i \in DOMAIN medicines : medicines[i].stock < 0

\* A sale has taken a record's stock down to exactly zero, and a later sale
\* of the same record has been refused.
C2_Witness ==
    /\ last.op = "update_stock"
    /\ last.operation = "sold"
    /\ last.ret = 0
    /\ Target(last.before, last.id) # 0
    /\ last.before[Target(last.before, last.id)].stock = 0
    /\ last.before[Target(last.before, last.id)].updated_at > 0

\* C3: a sold adjustment with quantity > the targeted record's stock returns
\* the failure result and leaves the whole ledger unchanged: no field of any
\* record (stock, updated_at) is modified and the snapshot is not written.
C3_InsufficientStockRefused ==
    (last.op = "update_stock" /\ last.operation = "sold")
        => LET i == Target(last.before, last.id)
           IN  (i # 0 /\ last.quantity > last.before[i].stock)
                   => /\ last.ret = 0
                      /\ medicines = last.before
                      /\ disk = last.disk_before

\* A sale of more than the stock of an existing record has been refused.
C3_Witness ==
    /\ last.op = "update_stock"
    /\ last.operation = "sold"
    /\ Target(last.before, last.id) # 0
    /\ last.quantity > last.before[Target(last.before, last.id)].stock
    /\ last.before[Target(last.before, last.id)].stock > 0

\* C4: a successful adjust changes the targeted record's stock by exactly
\* -quantity (sold, which succeeds when quantity <= stock) or +quantity
\* (bought, which always succeeds), and leaves the id, name, min_stock and
\* price of that record and every field of every other record unchanged.
C4_AdjustExactAndFramed ==
    last.op = "update_stock"
        => LET i == Target(last.before, last.id)
               old == last.before[i]
               new == medicines[i]
           IN  i # 0 =>
                 /\ last.operation = "bought"
                        => last.ret = i /\ new.stock = old.stock + last.quantity
                 /\ (last.operation = "sold" /\ last.quantity <= old.stock)
                        => last.ret = i /\ new.stock = old.stock - last.quantity
                 /\ last.ret # 0 =>
                        /\ Len(medicines) = Len(last.before)
                        /\ new.id = old.id
                        /\ new.name = old.name
                        /\ new.search_name = old.search_name
                        /\ new.min_stock = old.min_stock
                        /\ new.price = old.price
                        /\ new.created_at = old.created_at
                        /\ \A j \in 1..Len(medicines) :
                               j # i => medicines[j] = last.before[j]

\* A purchase has succeeded on a record that already had stock, in a list
\* that holds another record too.
C4_Witness ==
    /\ last.op = "update_stock"
    /\ last.operation = "bought"
    /\ last.ret # 0
    /\ last.quantity > 0
    /\ Len(medicines) > 1
    /\ last.before[last.ret].stock > 0

\* The calls that have returned after mutating the ledger.
ReturnedMutation ==
    \/ last.op = "update_stock" /\ last.ret # 0
    \/ last.op \in {"import", "restock"} /\ last.ok

\* C5: whenever a successful adjust, a replace-all import or a merge import
\* has returned, the snapshot on disk holds exactly the in-memory records
\* (same records, same field values, same order).
C5_SnapshotMatchesMemory ==
    ReturnedMutation => disk.exists /\ disk.medicines = JsonList(medicines)

\* A replace-all import has returned with records in the list.
C5_Witness ==
    /\ last.op = "import"
    /\ last.ok
    /\ Len(medicines) > 1

\* C6: for every record r of the ledger, in any reachable state (also with
\* several records of one normalized name), resolve(r.normalizedName) returns
\* exactly the record r with confidence 100.
C6_ResolveOwnName ==
    last.op = "find"
        => \A i \in 1..Len(medicines) :
               medicines[i].search_name = Norm(last.query)
                   => last.idx = i /\ last.score = 100

\* C7: if some record's normalized name equals the normalized query, resolve
\* returns a record whose normalized name equals the query, with confidence
\* 100, wherever that record is and whatever the other records offer.
C7_ExactMatchWins ==
    (/\ last.op = "find"
     /\ \E i \in 1..Len(medicines) : medicines[i].search_name = Norm(last.query))
        => /\ last.idx \in 1..Len(medicines)
           /\ medicines[last.idx].search_name = Norm(last.query)
           /\ last.score = 100

\* An exact match has been returned from behind a record that contains the
\* query and a record that starts with it.
C7_Witness ==
    /\ last.op = "find"
    /\ last.score = 100
    /\ last.idx > 2
    /\ Contains(medicines[1].search_name, Norm(last.query))
    /\ StartsWith(medicines[2].search_name, Norm(last.query))

HasExact(meds, q) == \E i \in 1..Len(meds) : meds[i].search_name = q
HasPrefix(meds, q) == \E i \in 1..Len(meds) : StartsWith(meds[i].search_name, q)
HasSubstring(meds, q) == \E i \in 1..Len(meds) : Contains(meds[i].search_name, q)

\* C8: when no record matches exactly, resolve returns with confidence 90 the
\* first record, in list order, whose normalized name starts with the query,
\* if there is one (also when an earlier record contains the query without
\* starting with it); only when no record starts with the query does it
\* return with confidence 80 the first record that contains it.
C8_PrefixBeforeSubstring ==
    (last.op = "find" /\ Norm(last.query) # <<>>
        /\ ~HasExact(medicines, Norm(last.query)))
        => LET q == Norm(last.query)
               i == last.idx
           IN  /\ HasPrefix(medicines, q)
                    => /\ i \in 1..Len(medicines)
                       /\ last.score = 90
                       /\ StartsWith(medicines[i].search_name, q)
                       /\ \A j \in 1..(i - 1) : ~StartsWith(medicines[j].search_name, q)
               /\ (~HasPrefix(medicines, q) /\ HasSubstring(medicines, q))
                    => /\ i \in 1..Len(medicines)
                       /\ last.score = 80
                       /\ Contains(medicines[i].search_name, q)
                       /\ \A j \in 1..(i - 1) : ~Contains(medicines[j].search_name, q)

\* A prefix match has been returned from behind a record that contains the
\* query without starting with it.
C8_Witness ==
    /\ last.op = "find"
    /\ last.score = 90
    /\ last.idx > 1
    /\ Contains(medicines[1].search_name, Norm(last.query))
    /\ ~StartsWith(medicines[1].search_name, Norm(last.query))

\* The highest similarity score any record has with the query.
BestScore(meds, q) ==
    CHOOSE x \in {token_sort_ratio(q, meds[i].search_name) : i \in 1..Len(meds)} :
        \A i \in 1..Len(meds) : token_sort_ratio(q, meds[i].search_name) <= x

\* C9: when no record matches the query exactly, by prefix or by substring,
\* resolve returns the record of highest similarity score with that score if
\* the score is >= 50, and (none, 0) if the highest score is below 50 or the
\* ledger is empty; and the returned record is none exactly when the
\* returned confidence is 0.
C9_FuzzyThreshold ==
    last.op = "find"
        => /\ last.idx = 0 <=> last.score = 0
           /\ (/\ ~HasExact(medicines, Norm(last.query))
               /\ ~HasPrefix(medicines, Norm(last.query))
               /\ ~HasSubstring(medicines, Norm(last.query)))
                 => IF medicines = <<>> \/ BestScore(medicines, Norm(last.query)) < 50
                    THEN last.idx = 0 /\ last.score = 0
                    ELSE /\ last.idx \in 1..Len(medicines)
                         /\ last.score = BestScore(medicines, Norm(last.query))
                         /\ token_sort_ratio(Norm(last.query),
                                             medicines[last.idx].search_name)
                                = last.score

\* A record has been returned on similarity alone, from behind records of
\* lower similarity.
C9_Witness ==
    /\ last.op = "find"
    /\ ~HasSubstring(medicines, Norm(last.query))
    /\ last.idx > 1
    /\ last.score >= 50
    /\ token_sort_ratio(Norm(last.query), medicines[1].search_name) < last.score

\* The row at position k of a merge import is well formed: its name is not
\* empty and each of its stock, min_stock and price cells, where the table
\* has the column, converts.
RestockRowConverts(df, cols, k) ==
    /\ Strip(PyStr(RowAt(df, k, cols["name"]))) # <<>>
    /\ RowInt(df, k, cols, "stock", 0).ok
    /\ RowInt(df, k, cols, "min_stock", 0).ok
    /\ RowFloat(df, k, cols, "price").ok

\* C10: in a merge import, a (well-formed) row that matches an existing
\* record and carries stock value q increases that record's stock by exactly
\* q (added to the prior stock), refreshes its updated_at, leaves its id
\* unchanged, and does not change the number of records.
C10_MergeAddsToMatched ==
    (last.op = "restock" /\ last.ok)
        => LET df == last.df
               cols == ActualCols(RestockColMap, df.columns)
               n == Len(df.rows)
           IN  /\ n > 0 => medicines = last.trace[n]
               /\ \A k \in 1..n :
                    LET before == IF k = 1 THEN last.before ELSE last.trace[k - 1]
                        after == last.trace[k]
                        m == find_medicine(before, Strip(PyStr(RowAt(df, k, cols["name"]))))
                        q == RowInt(df, k, cols, "stock", 0)
                    IN  (RestockRowConverts(df, cols, k) /\ m.idx # 0 /\ m.score >= 60)
                            => /\ Len(after) = Len(before)
                               /\ after[m.idx].stock = before[m.idx].stock + q.v
                               /\ after[m.idx].updated_at = now - 1
                               /\ after[m.idx].id = before[m.idx].id

\* A merge import has added a row's stock to a record that was in the list
\* before the call, with stock, and was last updated before the call.
C10_Witness ==
    /\ last.op = "restock"
    /\ last.ok
    /\ last.steps # <<>>
    /\ last.steps[1] = "updated"
    /\ last.before # <<>>
    /\ last.before[1].stock > 0
    /\ last.before[1].updated_at < now - 1
    /\ medicines[1].stock > last.before[1].stock

----------------------------------------------------------------------------
(* Merge import, row by row. RowBefore and RowAfter are the list before    *)
(* and after row k of the last merge import.                               *)

RowBefore(k) == IF k = 1 THEN last.before ELSE last.trace[k - 1]
RowAfter(k) == last.trace[k]

\* What the resolver returns for the name of row k on the list before it.
RowMatch(df, cols, k) ==
    find_medicine(RowBefore(k), Strip(PyStr(RowAt(df, k, cols["name"]))))

\* The resolver returned a record with confidence >= 60.
Confident(m) == m.idx # 0 /\ m.score >= 60

\* x is the largest id in meds plus 1, or 1 for the empty list.
IsNextId(meds, x) ==
    IF meds = <<>> THEN x = 1
    ELSE /\ \E i \in 1..Len(meds) : meds[i].id = x - 1
         /\ \A i \in 1..Len(meds) : meds[i].id < x

\* C11: in a merge import, a (well-formed) row with no sufficiently
\* confident match appends exactly one new record; its id is the maximum id
\* in the list immediately before the row plus 1 (1 on an empty list), its
\* stock is the row's stock value, and min_stock and price take the defaults
\* 20 and 0.0 when the table has no such column.
C11_MergeCreatesWithNextId ==
    (last.op = "restock" /\ last.ok)
        => LET df == last.df
               cols == ActualCols(RestockColMap, df.columns)
           IN  \A k \in 1..Len(df.rows) :
                   (RestockRowConverts(df, cols, k) /\ ~Confident(RowMatch(df, cols, k)))
                       => LET before == RowBefore(k)
                              after == RowAfter(k)
                              new == after[Len(after)]
                          IN  /\ Len(after) = Len(before) + 1
                              /\ SubSeq(after, 1, Len(before)) = before
                              /\ IsNextId(before, new.id)
                              /\ new.stock = RowInt(df, k, cols, "stock", 0).v
                              /\ "min_stock" \notin DOMAIN cols => new.min_stock = 20
                              /\ "price" \notin DOMAIN cols => new.price = Float(0)

\* A merge import has created a record in a list whose largest id is not
\* its length.
C11_Witness ==
    /\ last.op = "restock"
    /\ last.ok
    /\ last.before # <<>>
    /\ \E i \in 1..Len(last.before) : last.before[i].id > Len(last.before)
    /\ Len(medicines) = Len(last.before) + 1
    /\ IsNextId(last.before, medicines[Len(medicines)].id)

\* C12: in a merge import, a (well-formed) row updates an existing record if
\* and only if the resolver returns a record with confidence >= 60 for the
\* row's name: with such a match no record is created and only the matched
\* record changes; without one, and so with a best match of confidence
\* 50..59, a record is created and every existing record, the matched one
\* included, is left as it was.
C12_MergeUpdatesIffConfident ==
    (last.op = "restock" /\ last.ok)
        => LET df == last.df
               cols == ActualCols(RestockColMap, df.columns)
           IN  \A k \in 1..Len(df.rows) :
                   RestockRowConverts(df, cols, k)
                       => LET before == RowBefore(k)
                              after == RowAfter(k)
                              m == RowMatch(df, cols, k)
                          IN  IF Confident(m)
                              THEN /\ Len(after) = Len(before)
                                   /\ \A i \in 1..Len(before) :
                                        i # m.idx => after[i] = before[i]
                                   /\ after[m.idx].stock =
                                        before[m.idx].stock + RowInt(df, k, cols, "stock", 0).v
                                   /\ after[m.idx].updated_at = now - 1
                              ELSE /\ Len(after) = Len(before) + 1
                                   /\ SubSeq(after, 1, Len(before)) = before

\* A merge import has created a record for a row whose best match had a
\* confidence in 50..59, next to the matched record.
C12_Witness ==
    /\ last.op = "restock"
    /\ last.ok
    /\ Len(last.df.rows) = 1
    /\ LET m == RowMatch(last.df, ActualCols(RestockColMap, last.df.columns), 1)
       IN  /\ m.idx # 0
           /\ m.score \in 50..59
           /\ Len(medicines) = Len(last.before) + 1
           /\ medicines[m.idx] = last.before[m.idx]

\* C13: in a merge import, a (well-formed) row that updates an existing
\* record leaves the record's min_stock unchanged when the table has no
\* min_stock column and its price unchanged when the table has no price
\* column; each takes the row's value when its column is present.
C13_MergeOverwritesOnlyPresentColumns ==
    (last.op = "restock" /\ last.ok)
        => LET df == last.df
               cols == ActualCols(RestockColMap, df.columns)
           IN  \A k \in 1..Len(df.rows) :
                   LET m == RowMatch(df, cols, k)
                       old == RowBefore(k)[m.idx]
                       new == RowAfter(k)[m.idx]
                   IN  (RestockRowConverts(df, cols, k) /\ Confident(m))
                           => /\ new.min_stock =
                                    IF "min_stock" \in DOMAIN cols
                                    THEN PyInt(RowAt(df, k, cols["min_stock"])).v
                                    ELSE old.min_stock
                              /\ new.price =
                                    IF "price" \in DOMAIN cols
                                    THEN PyFloat(RowAt(df, k, cols["price"])).v
                                    ELSE old.price

\* A merge import of a table without min_stock and price columns has
\* updated a record whose min_stock and price are not the defaults, and
\* they are what they were.
C13_Witness ==
    /\ last.op = "restock"
    /\ last.ok
    /\ DOMAIN ActualCols(RestockColMap, last.df.columns) = {"name", "stock"}
    /\ last.steps # <<>>
    /\ last.steps[1] = "updated"
    /\ last.before # <<>>
    /\ last.before[1].min_stock # DEFAULT_MIN_STOCK
    /\ last.before[1].price # Float(0)
    /\ medicines[1].stock # last.before[1].stock
    /\ medicines[1].min_stock = last.before[1].min_stock
    /\ medicines[1].price = last.before[1].price

\* The headers of df contain none of the aliases of the name column.
NoNameColumn(col_map, df) ==
    \A e \in 1..Len(col_map) :
        col_map[e][1] = "name"
            => \A a \in 1..Len(col_map[e][2]), c \in 1..Len(df.columns) :
                    LowerHeader(df.columns[c]) # col_map[e][2][a]

\* C14: an import (replace-all or merge) of a table whose headers map to no
\* name column fails as a whole: it returns zero counts and one error
\* message, and the list and the file are exactly what they were before the
\* call; replace-all does not clear the list.
C14_NoNameColumnAbortsBeforeMutation ==
    /\ (last.op = "import" /\ NoNameColumn(ImportColMap, last.df))
            => /\ last.success_count = 0
               /\ last.errors = <<ErrColumns>>
               /\ medicines = last.before
               /\ disk = last.disk_before
    /\ (last.op = "restock" /\ NoNameColumn(RestockColMap, last.df))
            => /\ last.updated_count = 0
               /\ last.new_count = 0
               /\ last.updates_detail = <<>>
               /\ last.not_found = <<ErrColumns>>
               /\ medicines = last.before
               /\ disk = last.disk_before

\* A replace-all import of a table without a name column has returned on a
\* list that holds records.
C14_Witness ==
    /\ last.op = "import"
    /\ NoNameColumn(ImportColMap, last.df)
    /\ last.before # <<>>
    /\ last.errors # <<>>

\* A merge import of a table without a name column has returned on a list
\* that holds records.
C14_WitnessMerge ==
    /\ last.op = "restock"
    /\ NoNameColumn(RestockColMap, last.df)
    /\ last.before # <<>>
    /\ last.not_found # <<>>

----------------------------------------------------------------------------
(* Replace-all import, row by row.                                         *)

\* The cells of row r convert: stock, min_stock and price, where the table
\* has the column.
ImportRowConverts(df, cols, r) ==
    /\ RowInt(df, r, cols, "stock", 0).ok
    /\ RowInt(df, r, cols, "min_stock", 0).ok
    /\ RowFloat(df, r, cols, "price").ok

\* The name cell of row r holds text that is not empty after trimming.
ImportRowNamed(df, cols, r) ==
    /\ RowAt(df, r, cols["name"]).k # "nan"
    /\ Strip(PyStr(RowAt(df, r, cols["name"]))) # <<>>

\* The record m holds the values of row r of df, created at time t.
RecordOfRow(m, df, cols, r, t) ==
    /\ m.id = r
    /\ m.name = Strip(PyStr(RowAt(df, r, cols["name"])))
    /\ m.search_name = LowerStr(m.name)
    /\ m.stock = RowInt(df, r, cols, "stock", 0).v
    /\ m.min_stock = RowInt(df, r, cols, "min_stock", DEFAULT_MIN_STOCK).v
    /\ m.price = RowFloat(df, r, cols, "price").v
    /\ m.created_at = t
    /\ m.updated_at = t

\* C15: after a replace-all import of a table with a name column, the list
\* holds exactly the records created from this table's converted rows, in
\* row order, each with id = row position + 1 (positions from 0); no record
\* from before the import remains, and success_count is the number of
\* records in the list.
C15_ReplaceAllHoldsExactlyTheBatch ==
    (last.op = "import" /\ ~NoNameColumn(ImportColMap, last.df))
        => LET df == last.df
               cols == ActualCols(ImportColMap, df.columns)
               n == Len(df.rows)
           IN  /\ \A i \in 1..Len(medicines) :
                    /\ medicines[i].id \in 1..n
                    /\ ImportRowConverts(df, cols, medicines[i].id)
                    /\ RecordOfRow(medicines[i], df, cols, medicines[i].id, now - 1)
               /\ \A i, j \in 1..Len(medicines) :
                    i < j => medicines[i].id < medicines[j].id
               /\ \A r \in 1..n :
                    (ImportRowNamed(df, cols, r) /\ ImportRowConverts(df, cols, r))
                        => \E i \in 1..Len(medicines) : medicines[i].id = r
               /\ last.success_count = Len(medicines)

\* A replace-all import has replaced a list of records by the records of a
\* table, one of whose rows did not convert, so that an id exceeds the
\* record's position in the list.
C15_Witness ==
    /\ last.op = "import"
    /\ last.ok
    /\ last.before # <<>>
    /\ medicines # <<>>
    /\ last.errors # <<>>
    /\ medicines[1].id = 2
    /\ \A i \in 1..Len(medicines) : medicines[i].created_at = now - 1

\* The number of records in meds with the id r.
CountId(meds, r) == Cardinality({i \in 1..Len(meds) : meds[i].id = r})

\* The number of messages in errors tagged with the row index r.
CountErr(errors, r) == Cardinality({i \in 1..Len(errors) : errors[i] = ErrRow(r)})

\* C16: in a replace-all import every row has exactly one of three
\* outcomes: a row whose name value is missing or empty after trimming is
\* skipped, with no record and no error message; a row with a name and a
\* cell that does not convert adds one error message tagged with its
\* 1-based index and no record; any other row adds one record; and
\* success_count counts the rows of the third kind, whatever rows precede
\* them.
C16_ImportRowOutcomes ==
    (last.op = "import" /\ ~NoNameColumn(ImportColMap, last.df))
        => LET df == last.df
               cols == ActualCols(ImportColMap, df.columns)
               n == Len(df.rows)
               created == {r \in 1..n : ImportRowNamed(df, cols, r)
                                          /\ ImportRowConverts(df, cols, r)}
           IN  /\ \A r \in 1..n :
                    IF ~ImportRowNamed(df, cols, r)
                    THEN CountId(medicines, r) = 0 /\ CountErr(last.errors, r) = 0
                    ELSE IF ~ImportRowConverts(df, cols, r)
                    THEN CountId(medicines, r) = 0 /\ CountErr(last.errors, r) = 1
                    ELSE CountId(medicines, r) = 1 /\ CountErr(last.errors, r) = 0
               /\ last.success_count = Cardinality(created)
               /\ Len(last.errors) =
                    Cardinality({r \in 1..n : ImportRowNamed(df, cols, r)
                                               /\ ~ImportRowConverts(df, cols, r)})

\* C17: in a merge import, a row that produces an error message is skipped
\* entirely: the list after the row is the list before it (no stock,
\* min_stock, price or updated_at changed, no record created), also when
\* the failing value is the min_stock or price of a row that matched an
\* existing record.
C17_MergeErrorRowSkipped ==
    (last.op = "restock" /\ last.ok)
        => \A k \in 1..Len(last.df.rows) :
               CountErr(last.not_found, k) > 0 => RowAfter(k) = RowBefore(k)

----------------------------------------------------------------------------
(* Status and reporting.                                                   *)

\* C18: check_stock_status returns critical when stock <= 5, otherwise low
\* when stock <= min_stock, otherwise warning when stock <= min_stock * 1.5,
\* otherwise ok, the tests made in that order; with min_stock 20 it yields
\* critical for stock 5, low for 20, warning for 30 and ok for 31; and it
\* changes no record.
C18_ClassifyCascade ==
    last.op = "check_stock_status"
        => LET m == medicines[last.idx]
               critical == m.stock <= 5
               low == m.stock <= m.min_stock
               warning == 2 * m.stock <= 3 * m.min_stock
           IN  /\ last.status = "critical" <=> critical
               /\ last.status = "low" <=> (~critical /\ low)
               /\ last.status = "warning" <=> (~critical /\ ~low /\ warning)
               /\ last.status = "ok" <=> (~critical /\ ~low /\ ~warning)
               /\ m.min_stock = 20
                    => /\ m.stock = 5 => last.status = "critical"
                       /\ m.stock = 20 => last.status = "low"
                       /\ m.stock = 30 => last.status = "warning"
                       /\ m.stock = 31 => last.status = "ok"
               /\ medicines = last.before
               /\ disk = last.disk_before

\* A record at the critical level that is also below its min_stock has
\* been classified as critical.
C18_Witness ==
    /\ last.op = "check_stock_status"
    /\ medicines[last.idx].stock = 5
    /\ medicines[last.idx].min_stock = 20
    /\ last.status = "critical"

\* C19: get_low_stock_medicines returns exactly the records with
\* stock <= min_stock * 1.5, each once, in order of non-decreasing stock, and
\* changes neither the list nor its order.
C19_LowStockFilteredAndSorted ==
    last.op = "get_low_stock_medicines"
        => LET r == last.low_stock
           IN  /\ \A j \in 1..Len(r) : r[j] \in 1..Len(medicines)
               /\ \A i \in 1..Len(medicines) :
                    Cardinality({j \in 1..Len(r) : r[j] = i})
                        = IF 2 * medicines[i].stock <= 3 * medicines[i].min_stock
                          THEN 1 ELSE 0
               /\ \A j \in 1..(Len(r) - 1) :
                    medicines[r[j]].stock <= medicines[r[j + 1]].stock
               /\ medicines = last.before
               /\ disk = last.disk_before

\* The low-stock list has been returned in an order that is not the list
\* order, without a record of the list that is well stocked.
C19_Witness ==
    /\ last.op = "get_low_stock_medicines"
    /\ Len(last.low_stock) >= 2
    /\ Len(last.low_stock) < Len(medicines)
    /\ \E j \in 1..(Len(last.low_stock) - 1) : last.low_stock[j] > last.low_stock[j + 1]

----------------------------------------------------------------------------
(* The sale-line parser.                                                   *)

\* C20: every sale request the parser produces, under the primary pattern
\* or the fallback split, has quantity > 0 and a price >= 0; a line whose
\* trailing tokens would give a zero or negative quantity or a negative
\* price yields no request.
C20_RequestsArePositive ==
    (last.op = "parse_single_line" /\ last.entry.kind = "entry")
        => /\ last.entry.quantity > 0
           /\ ~last.entry.price.nan
           /\ last.entry.price.num >= 0

\* C21: for every text, is_sales_message returns true if and only if
\* parse_sales_message yields at least one sale request, that is, if at
\* least one non-blank line parses; lines that do not parse make neither
\* call fail.
C21_IsSalesIffParses ==
    last.op = "sales_message"
        => /\ ~last.is_sales.raised
           /\ ~last.parsed.raised
           /\ last.is_sales.v <=> last.parsed.v # <<>>

\* The file is not a JSON document, or the document is not an object with
\* a medicines array.
Corrupt(file) ==
    LET j == json_load(file)
    IN  \/ j.error # ""
        \/ j.data.t # "dict"
        \/ "medicines" \notin DOMAIN j.data.members
        \/ j.data.members.medicines.t # "list"

\* C22: load_database on a missing file, or on a file whose content is
\* corrupt (not parseable, or not an object with a medicines array), leaves
\* an empty ledger and raises nothing.
C22_LoadOfMissingOrCorruptIsEmpty ==
    (last.op = "load_database" /\ (~disk.exists \/ Corrupt(disk)))
        => /\ ~last.raised
           /\ last.is_list
           /\ medicines = <<>>

C24_IdsAreUnique ==
    \A i, j \in 1..Len(medicines) :
        medicines[i].id = medicines[j].id => i = j

\* A merge appended a record to a list whose ids are not the positions.
C24_Witness ==
    /\ last.op = "restock"
    /\ last.new_count >= 1
    /\ Len(last.before) >= 1
    /\ \E i \in 1..Len(last.before) : last.before[i].id # i

\* The alias group of the name field.
NameAliases == {"medicine_name", "name", "product", "medicine"}

HasNameAlias(df) ==
    \E i \in 1..Len(df.columns) : LowerHeader(df.columns[i]) \in NameAliases

\* C25: both import modes resolve the name column from one alias group,
\* medicine_name, name, product, medicine, matched without regard to case:
\* a table with a header in the group is accepted by the replace-all import
\* and by the merge alike, and both read the names from the same column.
C25_BothImportsShareNameAliases ==
    last.op \in {"import", "restock"}
        => /\ HasNameAlias(last.df) => last.ok
           /\ ActualCols(ImportColMap, last.df.columns)
                = ActualCols(RestockColMap, last.df.columns)

\* The quantities of the recorded sales of the record id in the list tx.
RECURSIVE SoldOf(_, _)
SoldOf(tx, id) ==
    IF tx = <<>> THEN 0
    ELSE (IF tx[Len(tx)].id = id THEN tx[Len(tx)].quantity ELSE 0)
         + SoldOf(SubSeq(tx, 1, Len(tx) - 1), id)

\* C26: when two sale batches run concurrently and the other batch may run
\* between the resolve of a line and its update_stock, no interleaving
\* reaches a negative stock, and the quantity sold of a record by both
\* batches together never exceeds the stock it had when the batches began.
C26_ConcurrentSalesKeepStock ==
    /\ \A i \in 1..Len(medicines) : medicines[i].stock >= 0
    /\ \A i \in 1..Len(sales[1].before) :
          SoldOf(sales[1].success_tx, sales[1].before[i].id)
            + SoldOf(sales[2].success_tx, sales[1].before[i].id)
          <= sales[1].before[i].stock

\* A batch resolved a line when the stock covered it, the other batch
\* sold in between, and update_stock refused the line.
C26_Witness ==
    /\ last.op = "sale_update"
    /\ last.ret = 0
    /\ last.quantity > 0
    /\ last.seen >= last.quantity
    /\ sales[3 - last.batch].success_tx # <<>>

RECURSIVE TotalStock(_)
TotalStock(meds) ==
    IF meds = <<>> THEN 0
    ELSE meds[Len(meds)].stock + TotalStock(SubSeq(meds, 1, Len(meds) - 1))

RECURSIVE TotalSold(_)
TotalSold(tx) ==
    IF tx = <<>> THEN 0
    ELSE tx[Len(tx)].quantity + TotalSold(SubSeq(tx, 1, Len(tx) - 1))

CountOutcome(lines, outcome) ==
    Cardinality({j \in 1..Len(lines) : lines[j].outcome = outcome})

\* The stock of the record id left by the lines before line j of a batch
\* that started on the list before.
RECURSIVE StockLeft(_, _, _, _)
StockLeft(before, lines, j, id) ==
    IF j = 1 THEN before[Target(before, id)].stock
    ELSE StockLeft(before, lines, j - 1, id)
         - (IF lines[j - 1].outcome = "sold" /\ lines[j - 1].id = id
            THEN lines[j - 1].quantity ELSE 0)

\* C30: process_sales handles the parsed lines in order and puts each in
\* exactly one of the lists success_tx, insufficient, not_found; a line
\* that is not found or not covered does not stop the lines after it; a
\* line is sold exactly when the stock left by the earlier sold lines of
\* its medicine covers it; and the total stock of the list goes down by
\* the sum of the quantities in success_tx.
C30_SaleBatchOutcomes ==
    /\ \A b \in {1, 2} :
          /\ Len(sales[b].lines) = sales[b].k
          /\ Len(sales[b].success_tx) = CountOutcome(sales[b].lines, "sold")
          /\ Len(sales[b].insufficient) = CountOutcome(sales[b].lines, "insufficient")
          /\ Len(sales[b].not_found) = CountOutcome(sales[b].lines, "not_found")
          /\ \A j \in 1..sales[b].k :
                sales[b].lines[j].quantity = sales[b].parsed_sales[j].quantity
          /\ sales[b].pc = "done" => sales[b].k = Len(sales[b].parsed_sales)
    /\ TotalStock(sales[1].before) - TotalStock(medicines)
         = TotalSold(sales[1].success_tx) + TotalSold(sales[2].success_tx)
    /\ \A b \in {1, 2} :
          sales[3 - b].parsed_sales = <<>> =>
            \A j \in 1..sales[b].k :
                LET line == sales[b].lines[j]
                IN  line.outcome # "not_found" =>
                      (line.outcome = "sold"
                         <=> StockLeft(sales[b].before, sales[b].lines, j, line.id)
                               >= line.quantity)

\* A batch alone ran to its end: its first line sold the stock out and its
\* second line, of the same medicine, was refused.
C30_Witness ==
    \E b \in {1, 2} :
        /\ sales[3 - b].parsed_sales = <<>>
        /\ sales[b].pc = "done"
        /\ sales[b].k = 2
        /\ sales[b].lines[1].outcome = "sold"
        /\ sales[b].lines[2].outcome = "insufficient"
        /\ sales[b].lines[1].id = sales[b].lines[2].id

\* Row k of the merge batch resolved, with confidence, to the record at
\* position i.
MatchedBy(k, i) ==
    LET cols == ActualCols(RestockColMap, last.df.columns)
    IN  /\ Strip(PyStr(RowAt(last.df, k, cols["name"]))) # <<>>
        /\ Confident(RowMatch(last.df, cols, k))
        /\ RowMatch(last.df, cols, k).idx = i

Unmatched(i) ==
    last.ok => \A k \in 1..Len(last.df.rows) : ~MatchedBy(k, i)

\* C27: a merge and an update_stock remove no record: every record of the
\* list before is still at its position with its id, name and created_at,
\* and a record that no row of a merge batch matched is unchanged in every
\* field.
C27_MergeAndAdjustKeepRecords ==
    last.op \in {"restock", "update_stock"}
        => /\ Len(medicines) >= Len(last.before)
           /\ \A i \in 1..Len(last.before) :
                 /\ medicines[i].id = last.before[i].id
                 /\ medicines[i].name = last.before[i].name
                 /\ medicines[i].created_at = last.before[i].created_at
           /\ last.op = "restock" =>
                 \A i \in 1..Len(last.before) :
                     Unmatched(i) => medicines[i] = last.before[i]

\* A merge changed one record of the list, left another as it was and
\* appended a new one.
C27_Witness ==
    /\ last.op = "restock"
    /\ last.ok
    /\ Len(medicines) > Len(last.before)
    /\ \E i \in 1..Len(last.before) : medicines[i] # last.before[i]
    /\ \E i \in 1..Len(last.before) : Unmatched(i)

RowName(df, k) ==
    Strip(PyStr(RowAt(df, k, ActualCols(RestockColMap, df.columns)["name"])))

\* The merge batch has two rows that convert, of one name, and the name
\* matches no record of the list before.
TwoRowsOfOneNewName ==
    /\ last.op = "restock"
    /\ last.ok
    /\ Len(last.df.rows) = 2
    /\ RowName(last.df, 1) = RowName(last.df, 2)
    /\ \A k \in {1, 2} :
          RestockRowConverts(last.df, ActualCols(RestockColMap, last.df.columns), k)
    /\ ~Confident(find_medicine(last.before, RowName(last.df, 1)))

\* C28: the merge applies each row to the list as the earlier rows of the
\* batch left it: of two rows with one name that matches no prior record,
\* the first creates a record and the second adds its stock to it, so the
\* batch leaves one new record with the sum of both stocks, new_count 1 and
\* updated_count 1.
C28_SecondRowUpdatesFirstRowsRecord ==
    TwoRowsOfOneNewName
        => LET cols == ActualCols(RestockColMap, last.df.columns)
               n == Len(last.before)
           IN  /\ Len(medicines) = n + 1
               /\ \A i \in 1..n : medicines[i] = last.before[i]
               /\ medicines[n + 1].name = RowName(last.df, 1)
               /\ medicines[n + 1].stock
                    = RowInt(last.df, 1, cols, "stock", 0).v
                      + RowInt(last.df, 2, cols, "stock", 0).v
               /\ last.new_count = 1
               /\ last.updated_count = 1

\* Such a batch was merged into a list that has records.
C28_Witness ==
    /\ TwoRowsOfOneNewName
    /\ Len(last.before) >= 1

\* The positions of the dicts get_low_stock_medicines returned.
Listed == {last.low_stock[j] : j \in 1..Len(last.low_stock)}

\* The statement of C31 as it was made: the dicts get_low_stock_medicines
\* returns are exactly the dicts check_stock_status does not rate 'ok'.
C31_LowStockIsExactlyNotOk ==
    last.op = "get_low_stock_medicines"
        => \A i \in 1..Len(medicines) :
               i \in Listed <=> check_stock_status(medicines[i]) # "ok"

\* C31, amended: every dict get_low_stock_medicines returns is rated
\* 'critical', 'low' or 'warning', never 'ok'; every dict rated 'low' or
\* 'warning' is returned; a dict rated 'critical' is returned exactly when
\* its stock is at most min_stock * LOW_STOCK_THRESHOLD.
C31_LowStockAgainstStatus ==
    last.op = "get_low_stock_medicines"
        => \A i \in 1..Len(medicines) :
               LET status == check_stock_status(medicines[i])
               IN  /\ i \in Listed => status # "ok"
                   /\ status \in {"low", "warning"} => i \in Listed
                   /\ status = "critical" =>
                         (i \in Listed
                            <=> 2 * medicines[i].stock <= 3 * medicines[i].min_stock)

\* The list was asked of a ledger with a critical record it returns, a
\* critical record it leaves out, and a record rated 'low' or 'warning'.
C31_Witness ==
    /\ last.op = "get_low_stock_medicines"
    /\ \E i \in Listed : check_stock_status(medicines[i]) = "critical"
    /\ \E i \in 1..Len(medicines) :
          i \notin Listed /\ check_stock_status(medicines[i]) = "critical"
    /\ \E i \in Listed : check_stock_status(medicines[i]) \in {"low", "warning"}

====
